---------------------------- MODULE Spec2Model ----------------------------
(***************************************************************************)
(* Post-Trade Analyzer (QuantBasile/Centaurus): the load pipeline of       *)
(* app.py, the End-of-Day reducer, the Top/Bottom report builder, the      *)
(* visible-column selection and the sortable table views.                  *)
(*                                                                         *)
(* Each component is checked under its own specification:                  *)
(*   Spec        the application: load button, load workers, result queue, *)
(*               poll handler, sheet navigation            (app.py)        *)
(*   SpecEod     EndOfDaySheet.on_df_loaded / _build_eod_df                *)
(*   SpecReport  ReportSheet._apply_report / _build_report_table_ceo_deluxe*)
(*   SpecCols    sanitize_visible_cols, applied once and twice             *)
(*   SpecView    the sortable table views (Instrument-Day, End-of-Day,     *)
(*               Report): set_df, _sort_by, _apply_filters                 *)
(* The variables of the components a specification does not exercise stay  *)
(* at their constructed values.                                            *)
(*                                                                         *)
(* Data representation.  A DataFrame is a record [columns, rows]; rows is  *)
(* a sequence of records in positional (reset_index) order.  Instruments   *)
(* are numbered in their string order.  A timestamp is <<day, tick>>: the  *)
(* calendar day and the time of day, compared lexicographically; .dt.date  *)
(* keeps the first component.  A float is held in halves (Scale = 2), so   *)
(* that rounding to integers is visible; a float cell may be NaN.          *)
(***************************************************************************)
EXTENDS Integers, Sequences, FiniteSets, TLC

VARIABLES
    \* ---- PostTradeApp / HeaderBar (app.py, ui_header.py)
    current_df,       \* PostTradeApp._current_df
    result_queue,     \* PostTradeApp._result_queue
    workers,          \* the load worker threads started so far: their position
                      \* (pc), locals (df, err) and how many payloads they put
    sheet_df,         \* per sheet: the table of its last on_df_loaded call
    selected,         \* LeftNav: the raised sheet
    load_btn,         \* HeaderBar.load_btn state
    progress,         \* HeaderBar.progress running
    status_var,       \* HeaderBar.status_var
    rows_var,         \* HeaderBar.rows_var
    from_var,         \* HeaderBar.from_var
    to_var,           \* HeaderBar.to_var
    dialog,           \* last messagebox.showerror title
    poll_armed,       \* an after(50, _poll_results) timer is pending
    app_op,           \* the main-thread handler that ran last
    \* ---- EndOfDaySheet (sheets/end_of_day.py)
    df_all,           \* EndOfDaySheet._df_all
    df_eod,           \* EndOfDaySheet._df_eod
    eod_pc,           \* "call" before on_df_loaded ran, "done" after
    \* ---- ReportSheet (sheets/report.py)
    rep_eod,          \* ReportSheet._df_eod
    n_var,            \* ReportSheet.n_var
    portfolio_var,    \* ReportSheet.portfolio_var
    metric_var,       \* metric_var
    df_range,         \* ReportSheet._df_range
    df_report,        \* ReportSheet._df_report
    data_df,          \* ReportDataTable._df: the table handed to self.data.set_df
    kpis,             \* the KPIs of the last report
    info_var,         \* ReportSheet.info_var
    rep_from_var,     \* ReportSheet.from_var
    rep_to_var,       \* ReportSheet.to_var
    rep_pc,           \* "call" before _apply_report ran, "done" after
    fields_sel,       \* the selection of ReportSheet.fields_list, in list order
    preset_saved,     \* the record _get_current_preset returned to _save_preset
    data_visible,     \* ReportDataTable._visible_cols
    data_rendered,    \* ReportDataTable._rendered_cols
    \* ---- sanitize_visible_cols (utils/table_utils.py)
    all_cols,         \* argument all_cols
    visible_cols,     \* argument visible_cols
    cols_once,        \* sanitize_visible_cols(all_cols, visible_cols)
    cols_twice,       \* sanitize_visible_cols(all_cols, cols_once)
    cols_pc,
    \* ---- table views (InstDayDataSubsheet, EODDataSubsheet, ReportDataTable)
    view_cls,         \* which of the three classes the view is
    view_df,          \* _df_base (Instrument-Day) or _df
    view_df_view,     \* _df_view
    sort_col,         \* _sort_col
    sort_asc,         \* _sort_asc
    bool_var,         \* InstDayDataSubsheet.bool_vars["flag_00"]
    view_op,          \* last handler of the view
    view_visible,     \* _visible_cols
    view_cache,       \* (_cache, _cache_len)
    cache_built,      \* the last handler called build_display_cache
    \* ---- flag_cols (utils/schema.py)
    total_columns,    \* cfg.total_columns
    flags,            \* what flag_cols(cfg) returned or raised
    flag_pc,          \* "call" before flag_cols ran, "done" after
    \* ---- build_display_cache (utils/table_utils.py)
    cache_df,         \* argument df
    cache_out,        \* the returned (cache, n)
    cache_pc,         \* "call" before build_display_cache ran, "done" after
    \* ---- display fields of the report builder (sheets/report.py)
    fields_arg,       \* argument fields of _build_report_table_ceo_deluxe
    rng_columns,      \* rng.columns
    fields_out,       \* the display field columns of the returned report
    fields_pc,        \* "call" before the builder ran, "done" after
    \* ---- files and dialogs of the report sheet (sheets/report.py)
    preset_file,      \* presets/<name>.json: "absent", "old", "new" or "partial"
    html_file,        \* reports/report_<...>.html, likewise
    win,              \* the Load preset chooser is open
    io_op,            \* last handler that touched the disk
    io_failed,        \* the I/O call of it that raised, or "none"
    io_dialog,        \* the messagebox it showed, or "None"
    io_escaped        \* an exception left the handler
appVars  == <<current_df, result_queue, workers, sheet_df, selected, from_var, to_var,
              load_btn, progress, status_var, rows_var, dialog, poll_armed, app_op>>
eodVars  == <<df_all, df_eod, eod_pc>>
repVars  == <<rep_eod, rep_from_var, rep_to_var, n_var, portfolio_var, metric_var, df_range,
              df_report,
              data_df, kpis, info_var, rep_pc, fields_sel, preset_saved,
              data_visible, data_rendered>>
colVars  == <<all_cols, visible_cols, cols_once, cols_twice, cols_pc>>
viewVars == <<view_cls, view_df, view_df_view, sort_col, sort_asc, bool_var, view_op,
              view_visible, view_cache, cache_built>>
schVars  == <<total_columns, flags, flag_pc>>
cacheVars == <<cache_df, cache_out, cache_pc>>
fldVars  == <<fields_arg, rng_columns, fields_out, fields_pc>>
ioVars   == <<preset_file, html_file, win, io_op, io_failed, io_dialog, io_escaped>>
vars     == <<appVars, eodVars, repVars, colVars, viewVars, schVars, cacheVars, fldVars, ioVars>>

\* Python's None where a table or a payload is expected, and where a string is.
None == [none |-> TRUE]
NoneStr == "None"

(***************************************************************************)
(* Generic helpers                                                         *)
(***************************************************************************)
Range(s) == {s[i] : i \in 1..Len(s)}

Min(a, b) == IF a < b THEN a ELSE b
Max(a, b) == IF a > b THEN a ELSE b

\* Sequences over S of length lo..hi.
SeqsOf(S, lo, hi) == UNION {[1..k -> S] : k \in lo..hi}

\* s restricted to the positions in idx (a sequence of positions).
Take(s, idx) == [k \in 1..Len(idx) |-> s[idx[k]]]

\* s back to front.
Reverse(s) == [i \in 1..Len(s) |-> s[Len(s) + 1 - i]]

\* head(n) of a sequence.
Head_n(s, n) == SubSeq(s, 1, Min(n, Len(s)))

\* Lexicographic order on integer tuples of equal length.
LexLess(k1, k2) ==
    \E i \in 1..Len(k1) :
        /\ k1[i] < k2[i]
        /\ \A j \in 1..(i - 1) : k1[j] = k2[j]

\* Position i comes before position j in a stable sort of keys.
\* pandas sorts descending by reversing, sorting stably and reversing back
\* (nargsort), so equal keys keep their original order in both directions.
Before(keys, asc, i, j) ==
    IF keys[i] = keys[j] THEN i < j
    ELSE IF asc THEN LexLess(keys[i], keys[j]) ELSE LexLess(keys[j], keys[i])

\* The positions of keys in stably sorted order (kind="mergesort").
Argsort(keys, asc) ==
    LET ks == keys
        place == [i \in 1..Len(ks) |->
                    Cardinality({j \in 1..Len(ks) : Before(ks, asc, j, i)})]
    IN  [k \in 1..Len(ks) |-> CHOOSE i \in 1..Len(ks) : place[i] = k - 1]

(***************************************************************************)
(* Trade record schema: utils/schema.py                                    *)
(***************************************************************************)
PROD_COLS ==
    <<"tradeNr", "instrument", "tradeTime", "tradeUnderlyingSpotRef", "portfolio",
      "counterparty", "underlying", "CumDelta", "CumDelta_stock",
      "CumDelta_certificates_abandon", "CumDelta_our_abandon",
      "CumDelta_external_abandon", "CumDelta_our_scheine", "CumDelta_external_scheine",
      "PremiaCum", "SpreadsCapture", "FullSpreadCapture", "Total", "PnlVonDeltaCum",
      "feesCum", "AufgeldCum">>

\* len(PROD_COLS)
NProdCols == Len(PROD_COLS)
TotalColumns == 64

MaxTableId == 1

\* What validate_trade_df reads of a table: how many production columns it
\* lacks, how many further columns it has, whether tradeTime is datetime64.
\* id tells loaded tables apart.
AppTables ==
    {[id |-> i, missing |-> 0, extra |-> TotalColumns - NProdCols, time_dt |-> TRUE] :
        i \in 1..MaxTableId}
    \cup {[id |-> 0, missing |-> 1, extra |-> TotalColumns - NProdCols + 1, time_dt |-> TRUE],
          [id |-> 0, missing |-> 0, extra |-> TotalColumns - NProdCols - 1, time_dt |-> TRUE],
          [id |-> 0, missing |-> 0, extra |-> TotalColumns - NProdCols, time_dt |-> FALSE]}

\* df.shape[1]
NCols(df) == (NProdCols - df.missing) + df.extra

\* A validation without the column-count check.
validate_trade_df_NoCount(df) ==
    IF df.missing > 0 THEN "ValueError"
    ELSE IF ~df.time_dt THEN "ValueError"
    ELSE "ok"

\* validate_trade_df: "ok", or "ValueError" where it raises (missing
\* production columns; column count; tradeTime dtype).
validate_trade_df(df) ==
    IF df.missing > 0 THEN "ValueError"
    ELSE IF NCols(df) # TotalColumns THEN "ValueError"
    ELSE IF ~df.time_dt THEN "ValueError"
    ELSE "ok"

\* The decimal digits of a natural number, as str(i) writes them.
RECURSIVE Digits(_)
Digits(i) == IF i < 10 THEN <<i>> ELSE Digits(i \div 10) \o <<i % 10>>

\* Left-padding with zeros to a width: the "0w" of a format spec.
RECURSIVE ZeroPad(_, _)
ZeroPad(ds, width) == IF Len(ds) < width THEN ZeroPad(<<0>> \o ds, width) ELSE ds

\* f"flag_{i:02d}": the prefix and the digit characters that follow it.
FlagName(i) == [prefix |-> "flag_", digits |-> ZeroPad(Digits(i), 2)]

MaxTotalColumns == 130

\* The values of cfg.total_columns tried.
TotalColumnsValues == (0 - 1)..MaxTotalColumns

\* range(n_flags) that also yields n_flags.
flag_cols_Inclusive(total) ==
    LET n_flags == total - NProdCols IN
    IF n_flags < 0 THEN [raised |-> TRUE, exc |-> "ValueError"]
    ELSE [raised |-> FALSE, value |-> [k \in 1..(n_flags + 1) |-> FlagName(k - 1)]]

\* flag_cols without the check of n_flags.
flag_cols_NoCheck(total) ==
    LET n_flags == total - NProdCols IN
    [raised |-> FALSE, value |-> [k \in 1..n_flags |-> FlagName(k - 1)]]

\* flag_cols(cfg), total the cfg.total_columns: the list, or the ValueError.
flag_cols(total) ==
    LET n_flags == total - NProdCols IN
    IF n_flags < 0 THEN [raised |-> TRUE, exc |-> "ValueError"]
    ELSE [raised |-> FALSE, value |-> [k \in 1..n_flags |-> FlagName(k - 1)]]

FlagInitCtor ==
    /\ total_columns = TotalColumns
    /\ flags = None
    /\ flag_pc = "idle"

FlagInit ==
    /\ total_columns \in TotalColumnsValues
    /\ flags = None
    /\ flag_pc = "call"

\* names = flag_cols(SchemaConfig(total_columns))
FlagCall ==
    /\ flag_pc = "call"
    /\ flags' = flag_cols(total_columns)
    /\ flag_pc' = "done"
    /\ UNCHANGED total_columns

(***************************************************************************)
(* utils/time_utils.py                                                     *)
(***************************************************************************)
DateTexts == {"2024-01-01", "2024-01-02", "01/02/2024"}

\* What the user leaves in the header's From and To entries before a load.
LoadRequests ==
    {<<"2024-01-01", "2024-01-02">>, <<"2024-01-02", "2024-01-01">>,
     <<"2024-01-01", "01/02/2024">>}

\* parse_iso_date: the date (as a day number), or ValueError.
parse_iso_date(s) ==
    CASE s = "2024-01-01" -> [ok |-> TRUE, date |-> 1]
      [] s = "2024-01-02" -> [ok |-> TRUE, date |-> 2]
      [] OTHER            -> [ok |-> FALSE, date |-> 0]

\* date.isoformat() of a day number
isoformat(d) == IF d = 1 THEN "2024-01-01" ELSE "2024-01-02"

(***************************************************************************)
(* PostTradeApp and HeaderBar: app.py, ui_header.py                        *)
(***************************************************************************)
MaxLoads == 2

Sheets == {"raw", "instday", "eod", "report"}

NoData == [text |-> "No data loaded."]

AppInit ==
    /\ current_df = None
    /\ result_queue = <<>>
    /\ workers = <<>>
    /\ sheet_df = [s \in Sheets |-> None]
    /\ selected = "raw"
    /\ from_var = "2024-01-01"
    /\ to_var = "2024-01-02"
    /\ load_btn = "normal"
    /\ progress = FALSE
    /\ status_var = "Ready."
    /\ rows_var = NoData
    /\ dialog = NoneStr
    /\ poll_armed = TRUE
    /\ app_op = "__init__"

\* HeaderBar.set_rows_info
set_rows_info(df) ==
    IF df = None THEN NoData
    ELSE [text |-> "rows x cols", of |-> df.id, cols |-> NCols(df)]

\* A handler that enters the loading state before it checks the dates.
load_button_pressed_LoadingFirst(from_s, to_s) ==
    LET from_date == parse_iso_date(from_s)
        to_date   == parse_iso_date(to_s)
        bad       == ~from_date.ok \/ ~to_date.ok \/ to_date.date < from_date.date
    IN
    /\ from_var' = from_s
    /\ to_var' = to_s
    /\ app_op' = "load_button_pressed"
    /\ load_btn' = "disabled"
    /\ progress' = TRUE
    /\ status_var' = "Loading trades"
    /\ rows_var' = set_rows_info(None)
    /\ IF bad THEN /\ dialog' = "Invalid range"
                   /\ UNCHANGED workers
       ELSE /\ Len(workers) < MaxLoads
            /\ workers' = Append(workers, [pc |-> "load", df |-> None, err |-> None,
                                           puts |-> 0])
            /\ UNCHANGED dialog
    /\ UNCHANGED <<current_df, result_queue, sheet_df, selected, poll_armed>>

\* PostTradeApp.load_button_pressed(from_s, to_s), the entries holding
\* from_s and to_s.
load_button_pressed(from_s, to_s) ==
    LET from_date == parse_iso_date(from_s)
        to_date   == parse_iso_date(to_s)
    IN
    /\ from_var' = from_s
    /\ to_var' = to_s
    /\ app_op' = "load_button_pressed"
    /\ IF ~from_date.ok \/ ~to_date.ok THEN
            /\ dialog' = "Invalid date"
            /\ UNCHANGED <<current_df, result_queue, workers, sheet_df, selected,
                           load_btn, progress, status_var, rows_var, poll_armed>>
       ELSE IF to_date.date < from_date.date THEN
            /\ dialog' = "Invalid range"
            /\ UNCHANGED <<current_df, result_queue, workers, sheet_df, selected,
                           load_btn, progress, status_var, rows_var, poll_armed>>
       ELSE
            /\ Len(workers) < MaxLoads
            /\ load_btn' = "disabled"
            /\ progress' = TRUE
            /\ status_var' = "Loading trades"
            /\ rows_var' = set_rows_info(None)
            /\ workers' = Append(workers, [pc |-> "load", df |-> None, err |-> None,
                                           puts |-> 0])
            /\ UNCHANGED <<current_df, result_queue, sheet_df, selected, dialog,
                           poll_armed>>

\* The "Load trades" button: HeaderBar._handle_load through load_btn, which
\* set_loading(True) disables.
ClickLoad ==
    /\ load_btn = "normal"
    /\ \E req \in LoadRequests : load_button_pressed(req[1], req[2])

\* <Return> in the From or To entry: HeaderBar._handle_load, bound to the
\* entries, which set_loading does not disable.
ReturnKey ==
    \E req \in LoadRequests : load_button_pressed(req[1], req[2])

SetWorker(w, rec) == workers' = [workers EXCEPT ![w] = rec]

\* _load_worker: df = self.provider.load_trades(from_date, to_date); the
\* provider returns some table or raises.
WorkerLoad(w) ==
    /\ workers[w].pc = "load"
    /\ \/ \E df \in AppTables :
            SetWorker(w, [workers[w] EXCEPT !.pc = "validate", !.df = df])
       \/ SetWorker(w, [workers[w] EXCEPT !.pc = "except", !.err = [exc |-> "ProviderError"]])
    /\ UNCHANGED <<current_df, result_queue, sheet_df, selected, from_var, to_var,
                   load_btn, progress, status_var, rows_var, dialog, poll_armed, app_op>>

\* _load_worker: validate_trade_df(df)
WorkerValidate(w) ==
    /\ workers[w].pc = "validate"
    /\ LET r == validate_trade_df(workers[w].df) IN
         IF r = "ok"
         THEN SetWorker(w, [workers[w] EXCEPT !.pc = "put"])
         ELSE SetWorker(w, [workers[w] EXCEPT !.pc = "except", !.err = [exc |-> r]])
    /\ UNCHANGED <<current_df, result_queue, sheet_df, selected, from_var, to_var,
                   load_btn, progress, status_var, rows_var, dialog, poll_armed, app_op>>

\* A worker that installs the table itself besides queueing it.
WorkerPutOk_AssignsTable(w) ==
    /\ workers[w].pc = "put"
    /\ result_queue' = Append(result_queue, [kind |-> "ok", payload |-> workers[w].df])
    /\ current_df' = workers[w].df
    /\ SetWorker(w, [pc |-> "done", df |-> None, err |-> None,
                      puts |-> workers[w].puts + 1])
    /\ UNCHANGED <<sheet_df, selected, from_var, to_var,
                   load_btn, progress, status_var, rows_var, dialog, poll_armed, app_op>>

\* _load_worker: self._result_queue.put(("ok", df))
WorkerPutOk(w) ==
    /\ workers[w].pc = "put"
    /\ result_queue' = Append(result_queue, [kind |-> "ok", payload |-> workers[w].df])
    /\ SetWorker(w, [pc |-> "done", df |-> None, err |-> None,
                      puts |-> workers[w].puts + 1])
    /\ UNCHANGED <<current_df, sheet_df, selected, from_var, to_var,
                   load_btn, progress, status_var, rows_var, dialog, poll_armed, app_op>>

\* _load_worker: except Exception as e: self._result_queue.put(("err", e))
WorkerPutErr(w) ==
    /\ workers[w].pc = "except"
    /\ result_queue' = Append(result_queue, [kind |-> "err", payload |-> workers[w].err])
    /\ SetWorker(w, [pc |-> "done", df |-> None, err |-> None,
                      puts |-> workers[w].puts + 1])
    /\ UNCHANGED <<current_df, sheet_df, selected, from_var, to_var,
                   load_btn, progress, status_var, rows_var, dialog, poll_armed, app_op>>

\* _poll_results with an empty queue: re-arm only.
PollEmpty ==
    /\ poll_armed
    /\ result_queue = <<>>
    /\ poll_armed' = TRUE
    /\ app_op' = "_poll_results"
    /\ UNCHANGED <<current_df, result_queue, workers, sheet_df, selected, from_var,
                   to_var, load_btn, progress, status_var, rows_var, dialog>>

\* A success handler that notifies the raised sheet only.
PollOk_SelectedSheetOnly(payload) ==
    /\ current_df' = payload
    /\ load_btn' = "normal"
    /\ progress' = FALSE
    /\ status_var' = "Loaded."
    /\ rows_var' = set_rows_info(payload)
    /\ sheet_df' = [sheet_df EXCEPT ![selected] = payload]
    /\ UNCHANGED dialog

\* _poll_results, kind == "ok": replace the current table, clear the loading
\* state, call on_df_loaded on every sheet.
PollOk(payload) ==
    /\ current_df' = payload
    /\ load_btn' = "normal"
    /\ progress' = FALSE
    /\ status_var' = "Loaded."
    /\ rows_var' = set_rows_info(payload)
    /\ sheet_df' = [s \in Sheets |-> payload]
    /\ UNCHANGED dialog

\* A failure handler that also drops the table it could not replace.
PollErr_ClearsTable(payload) ==
    /\ current_df' = None
    /\ load_btn' = "normal"
    /\ progress' = FALSE
    /\ status_var' = "Ready."
    /\ dialog' = "Load failed"
    /\ UNCHANGED <<rows_var, sheet_df>>

\* _poll_results, else branch: clear the loading state, show the error.
PollErr(payload) ==
    /\ load_btn' = "normal"
    /\ progress' = FALSE
    /\ status_var' = "Ready."
    /\ dialog' = "Load failed"
    /\ UNCHANGED <<current_df, rows_var, sheet_df>>

\* A poll handler that schedules its next run only after a success.
PollPayload_NoRearmAfterFailure ==
    /\ poll_armed
    /\ result_queue # <<>>
    /\ LET kind    == Head(result_queue).kind
           payload == Head(result_queue).payload
       IN  IF kind = "ok" THEN PollOk(payload) ELSE PollErr(payload)
    /\ result_queue' = Tail(result_queue)
    /\ poll_armed' = (Head(result_queue).kind = "ok")
    /\ app_op' = "_poll_results"
    /\ UNCHANGED <<workers, selected, from_var, to_var>>

\* _poll_results with a payload on the queue.
PollPayload ==
    /\ poll_armed
    /\ result_queue # <<>>
    /\ LET kind    == Head(result_queue).kind
           payload == Head(result_queue).payload
       IN  IF kind = "ok" THEN PollOk(payload) ELSE PollErr(payload)
    /\ result_queue' = Tail(result_queue)
    /\ poll_armed' = TRUE
    /\ app_op' = "_poll_results"
    /\ UNCHANGED <<workers, selected, from_var, to_var>>

\* PostTradeApp.show_sheet(sheet_id), from the navigation buttons.
show_sheet(sheet_id) ==
    /\ sheet_id \in Sheets
    /\ selected' = sheet_id
    /\ sheet_df' = IF current_df # None
                   THEN [sheet_df EXCEPT ![sheet_id] = current_df]
                   ELSE sheet_df
    /\ app_op' = "show_sheet"
    /\ UNCHANGED <<current_df, result_queue, workers, from_var, to_var, load_btn,
                   progress, status_var, rows_var, dialog, poll_armed>>

ShowSheet == \E sheet_id \in Sheets : show_sheet(sheet_id)


(***************************************************************************)
(* End-of-Day reducer: EndOfDaySheet._build_eod_df (ReportSheet's copy is  *)
(* the same code).                                                         *)
(***************************************************************************)
MaxRows == 3
MaxInstrument == 2
Days == {1, 2}
Ticks == {0, 1}
Instruments == 1..MaxInstrument
Timestamps == Days \X Ticks

TradeCols == {"instrument", "tradeTime"}
TradeRows == [instrument : Instruments, tradeTime : Timestamps]

\* tradeTime.dt.date
DateOf(t) == t[1]

\* The tables on_df_loaded may be handed: every table of at most MaxRows
\* rows, and two tables that lack a structural column.
TradeTables ==
    {[columns |-> TradeCols, rows |-> r] : r \in SeqsOf(TradeRows, 0, MaxRows)}
    \cup {[columns |-> {"tradeTime"}, rows |-> <<[tradeTime |-> <<1, 0>>]>>],
          [columns |-> {"instrument"}, rows |-> <<[instrument |-> 1]>>]}

Empty(df) == Len(df.rows) = 0

\* head(1) in place of tail(1): the first row of every group.
GroupTail_Head(rows) ==
    LET first(i) == \A j \in 1..(i - 1) :
                       ~(/\ rows[j].instrument = rows[i].instrument
                         /\ rows[j]._day = rows[i]._day)
        keep == {i \in 1..Len(rows) : first(i)}
    IN  [k \in 1..Cardinality(keep) |->
            CHOOSE i \in keep : Cardinality({j \in keep : j < i}) = k - 1]

\* groupby(["instrument", "_day"], sort=False).tail(1): the positions of the
\* last row of every group, in the order of the frame.
GroupTail(rows) ==
    LET last(i) == \A j \in (i + 1)..Len(rows) :
                       ~(/\ rows[j].instrument = rows[i].instrument
                         /\ rows[j]._day = rows[i]._day)
        keep == {i \in 1..Len(rows) : last(i)}
    IN  [k \in 1..Cardinality(keep) |->
            CHOOSE i \in keep : Cardinality({j \in keep : j < i}) = k - 1]

_build_eod_df(df) ==
    IF df = None \/ Empty(df) THEN None
    ELSE IF "instrument" \notin df.columns \/ "tradeTime" \notin df.columns THEN None
    ELSE
      LET tmp == [i \in 1..Len(df.rows) |->
                    [instrument |-> df.rows[i].instrument,
                     tradeTime  |-> df.rows[i].tradeTime,
                     _day       |-> DateOf(df.rows[i].tradeTime)]]
          keys == [i \in 1..Len(tmp) |->
                    <<tmp[i].instrument, tmp[i]._day,
                      tmp[i].tradeTime[1], tmp[i].tradeTime[2]>>]
          sorted == Take(tmp, Argsort(keys, TRUE))
          eod == Take(sorted, GroupTail(sorted))
      IN  [columns |-> df.columns \cup {"day"},
           rows |-> [i \in 1..Len(eod) |->
                       [instrument |-> eod[i].instrument,
                        tradeTime  |-> eod[i].tradeTime,
                        day        |-> eod[i]._day]]]

EodInitCtor ==
    /\ df_all = None
    /\ df_eod = None
    /\ eod_pc = "idle"

\* EndOfDaySheet.on_df_loaded(df)
EodOnDfLoaded ==
    /\ eod_pc = "call"
    /\ df_eod' = _build_eod_df(df_all)
    /\ eod_pc' = "done"
    /\ UNCHANGED df_all

(***************************************************************************)
(* Ranking and report builder: ReportSheet (sheets/report.py)              *)
(***************************************************************************)
MaxEodRows == 3
MaxN == 50000
Scale == 2

RepInstruments == {1, 2}
Portfolios == {"MM_CORE", "MM_FLOW"}

\* A float64 cell, in units of 1/Scale, or NaN.
NaN == [na |-> TRUE, v |-> 0]
Num(h) == [na |-> FALSE, v |-> h]
MetricCells == {NaN, Num(-3), Num(1)}

RepCols == <<"instrument", "tradeTime", "portfolio", "Total", "day">>
RepRows == [instrument : RepInstruments, day : Days, portfolio : Portfolios,
            Total : MetricCells]

\* The End-of-Day tables the report sheet may hold: what _build_eod_df
\* returns, one row per (instrument, day), in (instrument, day) order.
RepEodTables ==
    {[columns |-> RepCols, rows |-> r] :
        r \in {s \in SeqsOf(RepRows, 0, MaxEodRows) :
                 \A i \in 1..(Len(s) - 1) :
                    LexLess(<<s[i].instrument, s[i].day>>,
                            <<s[i + 1].instrument, s[i + 1].day>>)}}

\* An End-of-Day table of three rows: instrument 1 with Total 100 on day 1
\* and -50 on day 2, instrument 2 with Total 30 on day 1.
ScenarioTable ==
    [columns |-> RepCols,
     rows |-> <<[instrument |-> 1, day |-> 1, portfolio |-> "MM_CORE",
                 Total |-> Num(100 * Scale)],
                [instrument |-> 1, day |-> 2, portfolio |-> "MM_CORE",
                 Total |-> Num(-50 * Scale)],
                [instrument |-> 2, day |-> 1, portfolio |-> "MM_CORE",
                 Total |-> Num(30 * Scale)]>>]

\* The values the user may leave in the N spinbox.
NValues == {0} \cup 1..MaxEodRows \cup {MaxN + 1}

ColumnsOf(df) == Range(df.columns)

\* A ranking value taken by magnitude.
ToNumericFill0_Abs(cell) == IF cell.na THEN 0 ELSE IF cell.v < 0 THEN -cell.v ELSE cell.v

\* The columns of the End-of-Day table that hold text.
TextColumns == {"portfolio"}

\* pd.to_numeric(work[metric], errors="coerce") on one row: a text cell that
\* spells no number becomes NaN.
to_numeric(r, metric) == IF metric \in TextColumns THEN NaN ELSE r[metric]

\* pd.to_numeric(x, errors="coerce").fillna(0.0), in units of 1/Scale
ToNumericFill0(cell) == IF cell.na THEN 0 ELSE cell.v

\* round(0) of a float held in units of 1/Scale: numpy and Python round
\* halves to the even integer.
RoundHalfEven(h) ==
    IF h % Scale = 0 THEN h \div Scale
    ELSE IF (h % Scale) * 2 < Scale THEN h \div Scale
    ELSE IF (h % Scale) * 2 > Scale THEN (h \div Scale) + 1
    ELSE IF (h \div Scale) % 2 = 0 THEN h \div Scale ELSE (h \div Scale) + 1

\* ReportSheet._fmt_int_series on one value
_fmt_int_series(h) == RoundHalfEven(h)

\* A conversion to int that rounds down.
IntTrunc_Floor(h) == h \div Scale

\* int(x) of a float held in units of 1/Scale: truncation towards zero.
IntTrunc(h) == IF h >= 0 THEN h \div Scale ELSE -((-h) \div Scale)

RECURSIVE SumSeq(_)
SumSeq(s) == IF Len(s) = 0 THEN 0 ELSE s[1] + SumSeq(Tail(s))

\* Series.sum() of column _metric_value
MetricSum(rows) == SumSeq([i \in 1..Len(rows) |-> rows[i]._metric_value])

\* DataFrame.nlargest(n, "_metric_value"): the first n rows in descending
\* order of the column, equal values in their original order (keep="first").
nlargest(rows, n) ==
    Head_n(Take(rows, Argsort([i \in 1..Len(rows) |-> <<rows[i]._metric_value>>], FALSE)), n)

\* A Bottom block taken from the greatest values.
nsmallest_Greatest(rows, n) == nlargest(rows, n)

\* DataFrame.nsmallest(n, "_metric_value")
nsmallest(rows, n) ==
    Head_n(Take(rows, Argsort([i \in 1..Len(rows) |-> <<rows[i]._metric_value>>], TRUE)), n)

\* A total taken over the best and the worst row only.
TotalVal_Selected(work) == MetricSum(nlargest(work, 1) \o nsmallest(work, 1))

\* total_val = float(work["_metric_value"].sum())
TotalVal(work) == MetricSum(work)

\* The fields the field list has selected after on_df_loaded, and the extra
\* PnL columns of it that the End-of-Day table has besides the metric.
DefaultFields == <<"instrument", "day", "portfolio">>
DefaultMetric == "Total"

\* must not in fields: fields.insert(0, must)
InsertMust(fields, must, columns) ==
    IF must \in Range(columns) /\ must \notin Range(fields)
    THEN <<must>> \o fields ELSE fields

\* fields = [c for c in fields if c in rng.columns], then the loop over
\* ("instrument", "day")
DisplayFields(fields, columns) ==
    LET present == SelectSeq(fields, LAMBDA c : c \in Range(columns))
    IN  InsertMust(InsertMust(present, "instrument", columns), "day", columns)

\* cols = ["section", "rank", "_metric_value"] + fields + extra_cols, kept
\* when in out.columns; then the rename of _metric_value and the sign column
\* inserted at 0.  out has the columns of top, bot and total_row.
ReportColumns(fields, columns) ==
    LET shown == DisplayFields(fields, columns)
        out_columns == {"section", "rank", "_metric_value"} \cup Range(shown)
        cols == SelectSeq(<<"section", "rank", "_metric_value">> \o shown,
                          LAMBDA c : c \in out_columns)
    IN  <<"sign">> \o [i \in 1..Len(cols) |->
                         IF cols[i] = "_metric_value" THEN "metric_value" ELSE cols[i]]

sign_icon(v, section) ==
    IF section = "TOTAL" THEN "Sigma" ELSE IF v >= 0 THEN "green" ELSE "red"

\* ReportSheet._build_report_table_ceo_deluxe(rng, metric, fields, n, []):
\* the report (out), the KPIs, and the locals top and bot_raw.
\* A TOTAL row holds "Sigma" as rank and "ALL" in its identity fields.
_build_report_table_ceo_deluxe(rng, metric, fields, n) ==
    IF rng = None \/ Empty(rng)
    THEN [out |-> [columns |-> <<>>, rows |-> <<>>], kpis |-> None,
          top |-> <<>>, bot_raw |-> <<>>]
    ELSE
      LET work == [i \in 1..Len(rng.rows) |->
                     [instrument |-> rng.rows[i].instrument,
                      day |-> rng.rows[i].day,
                      portfolio |-> rng.rows[i].portfolio,
                      _metric_value |-> ToNumericFill0(to_numeric(rng.rows[i], metric))]]
          top0 == nlargest(work, n)
          top == [i \in 1..Len(top0) |->
                    [section |-> "Top", rank |-> i, _metric_value |-> top0[i]._metric_value,
                     instrument |-> top0[i].instrument, day |-> top0[i].day,
                     portfolio |-> top0[i].portfolio]]
          bot0 == nsmallest(work, n)
          bot_raw == [i \in 1..Len(bot0) |->
                    [section |-> "Bottom", rank |-> i, _metric_value |-> bot0[i]._metric_value,
                     instrument |-> bot0[i].instrument, day |-> bot0[i].day,
                     portfolio |-> bot0[i].portfolio]]
          bot == Take(bot_raw, Argsort([i \in 1..Len(bot_raw) |-> <<bot_raw[i].rank>>], FALSE))
          total_val == TotalVal(work)
          total_row == [section |-> "TOTAL", rank |-> "Sigma", _metric_value |-> total_val,
                        instrument |-> "ALL", day |-> "ALL", portfolio |-> "ALL"]
          cat == top \o bot \o <<total_row>>
          out0 == [i \in 1..Len(cat) |->
                     [sign |-> sign_icon(_fmt_int_series(cat[i]._metric_value), cat[i].section),
                      section |-> cat[i].section,
                      rank |-> cat[i].rank,
                      metric_value |-> _fmt_int_series(cat[i]._metric_value),
                      instrument |-> cat[i].instrument,
                      day |-> cat[i].day,
                      portfolio |-> cat[i].portfolio]]
          sec_ord(r) == CASE r.section = "Top" -> 0 [] r.section = "Bottom" -> 1 [] OTHER -> 2
          \* 1e12 in the source; MaxN + 1 stands for it (above every rank)
          rank_key(r) == CASE r.section = "Top" -> r.rank
                           [] r.section = "Bottom" -> -r.rank
                           [] OTHER -> MaxN + 1
          out == Take(out0, Argsort([i \in 1..Len(out0) |->
                                        <<sec_ord(out0[i]), rank_key(out0[i])>>], TRUE))
          top_sum == IF Len(top) > 0 THEN IntTrunc(MetricSum(top)) ELSE 0
          bottom_sum == IF Len(bot_raw) > 0 THEN IntTrunc(MetricSum(bot_raw)) ELSE 0
      IN  [out |-> [columns |-> ReportColumns(fields, rng.columns),
                    rows |-> out],
           kpis |-> [top_sum |-> top_sum, bottom_sum |-> bottom_sum,
                     total_sum |-> RoundHalfEven(total_val),
                     net |-> top_sum + bottom_sum],
           top |-> top, bot_raw |-> bot_raw]

\* A clamp without the lower limit.
ClampN_NoLower(n) == Min(MaxN, n)

\* n = max(1, min(50000, int(self.n_var.get())))
ClampN(n) == Max(1, Min(MaxN, n))

\* A range that leaves out its last day.
FilterRange_OpenEnd(base, d_from, d_to, pf) ==
    LET keep(r) == /\ r.day >= d_from
                   /\ r.day < d_to
                   /\ (pf # "ALL" /\ "portfolio" \in ColumnsOf(base)) => r.portfolio = pf
    IN  [columns |-> base.columns, rows |-> SelectSeq(base.rows, keep)]

\* rng = base.loc[(day >= d_from) & (day <= d_to)], then the portfolio filter
FilterRange(base, d_from, d_to, pf) ==
    LET keep(r) == /\ r.day >= d_from
                   /\ r.day <= d_to
                   /\ (pf # "ALL" /\ "portfolio" \in ColumnsOf(base)) => r.portfolio = pf
    IN  [columns |-> base.columns, rows |-> SelectSeq(base.rows, keep)]

\* Optional[List[str]]: <<>> is None, <<l>> is the list l.
NoneList == <<>>
SomeList(l) == <<l>>

\* sanitize_visible_cols(all_cols, visible_cols)
sanitize_visible_cols(cols, visible) ==
    IF visible = NoneList \/ visible[1] = <<>> THEN cols
    ELSE SelectSeq(visible[1], LAMBDA c : c \in Range(cols))

\* ReportDataTable.set_df(df), _render_from_cache included: the table, the
\* visible columns and the columns the tree renders.
data_set_df(df) ==
    /\ data_df' = df
    /\ IF df = None \/ Empty(df) THEN
            \* _clear_tree: self.tree["columns"] = []
            /\ data_visible' = NoneList
            /\ UNCHANGED data_rendered
       ELSE
            /\ data_visible' = IF data_visible = NoneList THEN SomeList(df.columns)
                               ELSE data_visible
            /\ data_rendered' = sanitize_visible_cols(df.columns, data_visible')

ReportInitCtor ==
    /\ rep_eod = None
    /\ rep_from_var = ""
    /\ rep_to_var = ""
    /\ n_var = 10
    /\ portfolio_var = "ALL"
    /\ metric_var = "Total"
    /\ df_range = None
    /\ df_report = None
    /\ data_df = None
    /\ kpis = None
    /\ info_var = ""
    /\ rep_pc = "idle"
    /\ fields_sel = <<>>
    /\ preset_saved = None
    /\ data_visible = NoneList
    /\ data_rendered = <<>>

\* The body of ReportSheet._apply_report, run on what the controls hold:
\* the From and To texts, the N spinbox, the metric and the portfolio.
apply_report(from_s, to_s, nv, metric_s, pf, fields) ==
    IF rep_eod = None \/ Empty(rep_eod) THEN
         /\ info_var' = "No data loaded."
         /\ data_set_df(None)
         /\ rep_from_var' = from_s
         /\ rep_to_var' = to_s
         /\ UNCHANGED <<df_range, df_report, kpis>>
    ELSE IF ~parse_iso_date(from_s).ok \/ ~parse_iso_date(to_s).ok THEN
         /\ info_var' = "Invalid date. Use YYYY-MM-DD."
         /\ data_set_df(None)
         /\ rep_from_var' = from_s
         /\ rep_to_var' = to_s
         /\ UNCHANGED <<df_range, df_report, kpis>>
    ELSE
      LET d1 == parse_iso_date(from_s).date
          d2 == parse_iso_date(to_s).date
          swap == d2 < d1
          d_from == IF swap THEN d2 ELSE d1
          d_to == IF swap THEN d1 ELSE d2
          n == ClampN(nv)
          metric == metric_s
      IN
      /\ rep_from_var' = IF swap THEN isoformat(d_from) ELSE from_s
      /\ rep_to_var' = IF swap THEN isoformat(d_to) ELSE to_s
      /\ IF metric = "" \/ metric \notin ColumnsOf(rep_eod) THEN
             /\ info_var' = "Select a valid metric."
             /\ data_set_df(None)
             /\ UNCHANGED <<df_range, df_report, kpis>>
         ELSE
           LET rng == FilterRange(rep_eod, d_from, d_to, pf)
               built == _build_report_table_ceo_deluxe(rng, metric, fields, n)
           IN
           /\ df_range' = rng
           /\ df_report' = built.out
           /\ data_set_df(built.out)
           /\ kpis' = built.kpis
           /\ info_var' = "EOD rows, Metric, N, Portfolio"

\* ReportSheet._apply_report
_apply_report ==
    /\ rep_pc = "call"
    /\ rep_pc' = "done"
    /\ UNCHANGED <<rep_eod, n_var, portfolio_var, metric_var, fields_sel, preset_saved>>
    /\ apply_report(rep_from_var, rep_to_var, n_var, metric_var, portfolio_var, fields_sel)

\* The metrics a preset file may name: a numeric column, a text column, a
\* column the End-of-Day table lacks, or none.
PresetMetrics == {"Total", "portfolio", "PremiaCum", ""}

\* The presets a file in presets/ may hold; "" stands for a key that is
\* absent or empty.  The fields of a preset are the default selection.
Presets == [from : {"", "2024-01-02"}, to : {""}, n : {1, MaxEodRows},
            metric : PresetMetrics, portfolio : {"", "MM_FLOW"},
            fields : {DefaultFields}]

\* The rows of ReportSheet.fields_list as on_df_loaded fills it: the
\* DEFAULT_FIELDS the table has, then its other columns that are neither
\* metrics nor flags.
FieldsListbox == <<"instrument", "day", "portfolio", "tradeTime">>

\* A variant that selects every row of the listbox.
_select_listbox_values_All(lb, values) == lb

\* ReportSheet._select_listbox_values(lb, values): the rows of the listbox
\* whose text is one of the values, in listbox order
_select_listbox_values(lb, values) ==
    SelectSeq(lb, LAMBDA x : x \in Range(values))

\* ReportSheet._apply_preset(preset), _apply_report included
_apply_preset(preset) ==
    LET from_s == IF preset.from # "" THEN preset.from ELSE rep_from_var
        to_s == IF preset.to # "" THEN preset.to ELSE rep_to_var
        metric_s == IF preset.metric # "" THEN preset.metric ELSE metric_var
        pf == IF preset.portfolio # "" THEN preset.portfolio ELSE portfolio_var
    IN  /\ n_var' = preset.n
        /\ metric_var' = metric_s
        /\ portfolio_var' = pf
        /\ fields_sel' = _select_listbox_values(FieldsListbox, preset.fields)
        /\ apply_report(from_s, to_s, preset.n, metric_s, pf,
                        _select_listbox_values(FieldsListbox, preset.fields))

\* The sheet in on_df_loaded, the controls set and _apply_report about to
\* run; presets are loaded after it.
PresetInit ==
    /\ rep_eod \in RepEodTables
    /\ rep_from_var = "2024-01-01"
    /\ rep_to_var = "2024-01-02"
    /\ n_var = 10
    /\ portfolio_var = "ALL"
    /\ metric_var = DefaultMetric
    /\ df_range = None
    /\ df_report = None
    /\ data_df = None
    /\ kpis = None
    /\ info_var = ""
    /\ rep_pc = "call"
    /\ fields_sel = DefaultFields
    /\ preset_saved = None
    /\ data_visible = NoneList
    /\ data_rendered = <<>>

\* load_selected of ReportSheet._load_preset with a readable preset file
LoadPreset ==
    /\ rep_pc = "done"
    /\ rep_pc' = "preset"
    /\ UNCHANGED <<rep_eod, preset_saved>>
    /\ \E preset \in Presets : _apply_preset(preset)

(***************************************************************************)
(* Display fields of the report: sheets/report.py                          *)
(***************************************************************************)
MaxFields == 3

FieldNames == {"instrument", "day", "portfolio", "counterparty"}

\* The columns a filtered End-of-Day table may have.
RngColumnLists == {<<"instrument", "day", "portfolio", "Total">>,
                   <<"instrument", "portfolio", "Total">>,
                   <<"day", "portfolio", "counterparty", "Total">>,
                   <<"portfolio", "Total">>}

FieldsInitCtor ==
    /\ fields_arg = <<>>
    /\ rng_columns = <<>>
    /\ fields_out = <<>>
    /\ fields_pc = "idle"

\* A list of distinct field names, in any order.
FieldsInit ==
    /\ \E k \in 0..MaxFields : \E f \in [1..k -> FieldNames] :
            /\ \A i, j \in 1..k : i # j => f[i] # f[j]
            /\ fields_arg = f
    /\ rng_columns \in RngColumnLists
    /\ fields_out = <<>>
    /\ fields_pc = "call"

\* The display field columns of the report the builder returns: what
\* follows sign, section, rank and metric_value.
FieldsCall ==
    /\ fields_pc = "call"
    /\ fields_pc' = "done"
    /\ fields_out' = SubSeq(ReportColumns(fields_arg, rng_columns), 5,
                            Len(ReportColumns(fields_arg, rng_columns)))
    /\ UNCHANGED <<fields_arg, rng_columns>>

(***************************************************************************)
(* Preset files and the HTML export: sheets/report.py                      *)
(***************************************************************************)
MaxIoRows == 1

\* What a file on disk may be: absent, a complete file from before, a
\* complete file this session wrote, or one cut short by a failed write.
FileStates == {"absent", "old", "new", "partial"}

\* The names the user may type for a preset: none, one without a usable
\* character, a usable one.
PresetNames == {"", "??", "p1"}

IoInitCtor ==
    /\ preset_file = "absent"
    /\ html_file = "absent"
    /\ win = FALSE
    /\ io_op = "idle"
    /\ io_failed = "none"
    /\ io_dialog = "None"
    /\ io_escaped = FALSE

IoInit ==
    /\ preset_file \in {"absent", "old"}
    /\ html_file \in {"absent", "old"}
    /\ win = FALSE
    /\ io_op = "idle"
    /\ io_failed = "none"
    /\ io_dialog = "None"
    /\ io_escaped = FALSE

\* The report sheet of the file handlers: a small End-of-Day table.
IoReportInit == PresetInit /\ Len(rep_eod.rows) <= MaxIoRows

\* What one handler run leaves: the failed call, the dialog, the escape.
IoOutcome(op, failed, dlg, escaped) ==
    /\ io_op' = op
    /\ io_failed' = failed
    /\ io_dialog' = dlg
    /\ io_escaped' = escaped

\* safe = "".join(ch for ch in name if ch.isalnum() or ...)
SafeName(name) == IF name = "??" THEN "" ELSE name

\* ReportSheet._save_preset; fault is the I/O call the system fails.
_save_preset(name, fault) ==
    /\ ~win
    /\ rep_pc \in {"done", "preset"}
    /\ UNCHANGED <<html_file, win>>
    /\ IF fault = "makedirs" THEN
            /\ IoOutcome("_save_preset", "makedirs", "None", TRUE)
            /\ UNCHANGED preset_file
       ELSE IF name = "" THEN
            /\ IoOutcome("_save_preset", "none", "None", FALSE)
            /\ UNCHANGED preset_file
       ELSE IF SafeName(name) = "" THEN
            /\ IoOutcome("_save_preset", "none", "showwarning", FALSE)
            /\ UNCHANGED preset_file
       ELSE IF fault = "open" THEN
            /\ IoOutcome("_save_preset", "open", "showerror", FALSE)
            /\ UNCHANGED preset_file
       ELSE IF fault = "write" THEN
            \* open(path, "w") has truncated the file
            /\ IoOutcome("_save_preset", "write", "showerror", FALSE)
            /\ preset_file' = "partial"
       ELSE
            /\ IoOutcome("_save_preset", "none", "showinfo", FALSE)
            /\ preset_file' = "new"

SavePreset ==
    \E name \in PresetNames : \E fault \in {"none", "makedirs", "open", "write"} :
        _save_preset(name, fault) /\ UNCHANGED repVars

\* ReportSheet._load_preset up to the chooser window
_load_preset(fault) ==
    /\ ~win
    /\ rep_pc \in {"done", "preset"}
    /\ UNCHANGED <<preset_file, html_file, repVars>>
    /\ IF fault \in {"makedirs", "listdir"} THEN
            /\ IoOutcome("_load_preset", fault, "None", TRUE)
            /\ UNCHANGED win
       ELSE IF preset_file = "absent" THEN
            /\ IoOutcome("_load_preset", "none", "showinfo", FALSE)
            /\ UNCHANGED win
       ELSE
            /\ IoOutcome("_load_preset", "none", "None", FALSE)
            /\ win' = TRUE

OpenLoadPreset == \E fault \in {"none", "makedirs", "listdir"} : _load_preset(fault)

\* The presets the file on disk may hold here: a metric the table has and
\* one it lacks, the other keys absent.
IoPresets == {p \in Presets : /\ p.from = "" /\ p.portfolio = "" /\ p.n = 1
                              /\ p.metric \in {"Total", "PremiaCum"}}

\* load_selected of ReportSheet._load_preset, on the file selected
load_selected(fault) ==
    /\ win
    /\ UNCHANGED <<preset_file, html_file>>
    /\ IF fault = "open" THEN
            /\ IoOutcome("load_selected", "open", "showerror", FALSE)
            /\ UNCHANGED <<win, repVars>>
       ELSE IF fault = "read" \/ preset_file = "partial" THEN
            \* json.load raises on a failed read and on a file cut short
            /\ IoOutcome("load_selected", "read", "showerror", FALSE)
            /\ UNCHANGED <<win, repVars>>
       ELSE
            /\ IoOutcome("load_selected", "none", "None", FALSE)
            /\ win' = FALSE
            /\ rep_pc' = "preset"
            /\ UNCHANGED <<rep_eod, preset_saved>>
            /\ \E preset \in IoPresets : _apply_preset(preset)

LoadSelected == \E fault \in {"none", "open", "read"} : load_selected(fault)

\* The Cancel button of the chooser: win.destroy
CancelLoad ==
    /\ win
    /\ win' = FALSE
    /\ UNCHANGED <<preset_file, html_file, io_op, io_failed, io_dialog, io_escaped, repVars>>

\* ReportSheet._create_html; fault is the I/O call the system fails.
_create_html(fault) ==
    /\ ~win
    /\ rep_pc \in {"done", "preset"}
    /\ UNCHANGED <<preset_file, win, repVars>>
    /\ IF df_report = None \/ df_report.rows = <<>> THEN
            /\ IoOutcome("_create_html", "none", "showinfo", FALSE)
            /\ UNCHANGED html_file
       ELSE IF fault \in {"makedirs", "open"} THEN
            /\ IoOutcome("_create_html", fault, "None", TRUE)
            /\ UNCHANGED html_file
       ELSE IF fault = "write" THEN
            \* open(path, "w") has truncated the file
            /\ IoOutcome("_create_html", "write", "None", TRUE)
            /\ html_file' = "partial"
       ELSE
            /\ IoOutcome("_create_html", "none", "showinfo", FALSE)
            /\ html_file' = "new"

CreateHtml == \E fault \in {"none", "makedirs", "open", "write"} : _create_html(fault)


\* ReportSheet._get_current_preset: what the controls hold.  The texts of
\* this model carry no surrounding blanks, so strip() returns them whole.
_get_current_preset ==
    [from |-> rep_from_var, to |-> rep_to_var, n |-> n_var,
     metric |-> metric_var, portfolio |-> portfolio_var,
     fields |-> fields_sel]

\* What the user may leave in the From and To entries, and select in the
\* fields listbox, before saving a preset.
EntryTexts == DateTexts \cup {""}
FieldSelections == {DefaultFields, <<"day", "tradeTime">>, <<>>}

\* The sheet with a table loaded and the controls as the user left them,
\* no Apply since the last edit.
RoundTripInit ==
    /\ rep_eod \in RepEodTables
    /\ Len(rep_eod.rows) <= MaxIoRows
    /\ rep_from_var \in EntryTexts
    /\ rep_to_var \in EntryTexts \ {""}
    /\ n_var \in {0, 2}
    /\ portfolio_var \in {"ALL", "MM_CORE"}
    /\ metric_var = DefaultMetric
    /\ fields_sel \in FieldSelections
    /\ df_range = None
    /\ df_report = None
    /\ data_df = None
    /\ kpis = None
    /\ info_var = ""
    /\ rep_pc = "call"
    /\ preset_saved = None
    /\ data_visible = NoneList
    /\ data_rendered = <<>>

\* ReportSheet._save_preset with a writable file: the record captured is
\* the one json.dump writes and json.load reads back.
CapturePreset ==
    /\ rep_pc = "call"
    /\ rep_pc' = "saved"
    /\ preset_saved' = _get_current_preset
    /\ UNCHANGED <<rep_eod, rep_from_var, rep_to_var, n_var, portfolio_var, metric_var,
                   df_range, df_report, data_df, kpis, info_var, fields_sel,
                   data_visible, data_rendered>>

\* The user retypes the From date and reselects the fields between the
\* save and the load.
EditControls ==
    /\ rep_pc = "saved"
    /\ rep_pc' = "edited"
    /\ rep_from_var' \in EntryTexts
    /\ fields_sel' \in FieldSelections
    /\ UNCHANGED <<rep_eod, rep_to_var, n_var, portfolio_var, metric_var, df_range, df_report,
                   data_df, kpis, info_var, preset_saved,
                   data_visible, data_rendered>>

\* The user changes the From text and the selection of the fields listbox
\* after a report was shown, before the next Apply.
ChangeSelection ==
    /\ rep_pc = "done"
    /\ rep_pc' = "call"
    /\ rep_from_var' \in DateTexts
    /\ fields_sel' \in FieldSelections
    /\ UNCHANGED <<rep_eod, rep_to_var, n_var, portfolio_var, metric_var, df_range, df_report,
                   data_df, kpis, info_var, preset_saved, data_visible, data_rendered>>

\* load_selected of ReportSheet._load_preset on the preset just saved
LoadSaved ==
    /\ rep_pc \in {"saved", "edited"}
    /\ rep_pc' = "preset"
    /\ UNCHANGED <<rep_eod, preset_saved>>
    /\ _apply_preset(preset_saved)

(***************************************************************************)
(* Visible-column selection: utils/table_utils.py                          *)
(***************************************************************************)
MaxRequested == 2

ColNames == {"a", "b", "c"}

\* Column lists of a table: no name twice.
ColumnLists ==
    {l \in SeqsOf({"a", "b"}, 0, 2) : \A i, j \in 1..Len(l) : l[i] = l[j] => i = j}

RequestedLists ==
    {NoneList} \cup {SomeList(l) : l \in SeqsOf(ColNames, 0, MaxRequested)}

ColsInitCtor ==
    /\ all_cols = <<>>
    /\ visible_cols = NoneList
    /\ cols_once = <<>>
    /\ cols_twice = <<>>
    /\ cols_pc = "idle"

ColsInit ==
    /\ all_cols \in ColumnLists
    /\ visible_cols \in RequestedLists
    /\ cols_once = <<>>
    /\ cols_twice = <<>>
    /\ cols_pc = "call"

\* cols = sanitize_visible_cols(all_cols, visible_cols)
SelectOnce ==
    /\ cols_pc = "call"
    /\ cols_once' = sanitize_visible_cols(all_cols, visible_cols)
    /\ cols_pc' = "once"
    /\ UNCHANGED <<all_cols, visible_cols, cols_twice>>

\* the selection applied to its own result
SelectTwice ==
    /\ cols_pc = "once"
    /\ cols_twice' = sanitize_visible_cols(all_cols, SomeList(cols_once))
    /\ cols_pc' = "done"
    /\ UNCHANGED <<all_cols, visible_cols, cols_once>>

(***************************************************************************)
(* Display cache: utils/table_utils.py.  A formatted string is a record    *)
(* [text, of]: the format and the value formatted; [text |-> ""] is the    *)
(* empty string.  A table's row maps each column name to its cell; a cell  *)
(* is [na, v], na for a null (NaT, NA, NaN, None).                         *)
(***************************************************************************)
MaxCacheRows == 2

CacheCols == <<"tradeTime", "tradeNr", "flag_00", "Total", "portfolio">>

\* The rows over all five columns, each cell of its column's type.
CacheFullRows ==
    [tradeTime : {NaN, Num(1)},
     tradeNr   : {NaN, Num(7)},
     flag_00   : {[na |-> TRUE, v |-> FALSE], [na |-> FALSE, v |-> TRUE],
                  [na |-> FALSE, v |-> FALSE]},
     Total     : {NaN, Num(3)},
     portfolio : {[na |-> TRUE, v |-> ""], [na |-> FALSE, v |-> "MM_CORE"]}]

\* The column lists tried: no column, one column, all five.
CacheColumnLists == {<<>>, CacheCols} \cup {<<CacheCols[k]>> : k \in 1..Len(CacheCols)}

\* The rows of a table with the columns cols.
CacheRows(cols) == {[c \in Range(cols) |-> r[c]] : r \in CacheFullRows}

EmptyString == [text |-> ""]

\* df.empty: no rows or no columns
DfEmpty(df) == Len(df.rows) = 0 \/ Len(df.columns) = 0

\* pd.api.types.is_numeric_dtype(df[c]), for the columns that reach it
is_numeric_dtype(c) == c \in {"Total", "a", "b"}

\* A formatter that writes a null timestamp as the text NaT.
FormatCell_NaT(c, v) ==
    IF c = "tradeTime"
    THEN IF v.na THEN [text |-> "NaT"] ELSE [text |-> "%Y-%m-%d %H:%M:%S", of |-> v.v]
    ELSE IF v.na THEN EmptyString
    ELSE IF c = "tradeNr" THEN [text |-> "int", of |-> v.v]
    ELSE IF c = "flag_00" THEN (IF v.v THEN [text |-> "check"] ELSE [text |-> "X"])
    ELSE IF is_numeric_dtype(c) THEN [text |-> ".4f", of |-> v.v]
    ELSE [text |-> "str", of |-> v.v]

\* The list element build_display_cache writes for cell v of column c.
FormatCell(c, v) ==
    IF c = "tradeTime"
    THEN IF v.na THEN EmptyString ELSE [text |-> "%Y-%m-%d %H:%M:%S", of |-> v.v]
    ELSE IF c = "tradeNr"
    THEN IF v.na THEN EmptyString ELSE [text |-> "int", of |-> v.v]
    ELSE IF c = "flag_00"
    THEN IF v.na THEN EmptyString ELSE (IF v.v THEN [text |-> "check"] ELSE [text |-> "X"])
    ELSE IF is_numeric_dtype(c)
    THEN IF v.na THEN EmptyString ELSE [text |-> ".4f", of |-> v.v]
    ELSE IF v.na THEN EmptyString ELSE [text |-> "str", of |-> v.v]

\* build_display_cache(df): the mapping column -> list of strings, and n.
build_display_cache(df) ==
    IF df = None \/ DfEmpty(df) THEN [cache |-> <<>>, n |-> 0]
    ELSE [cache |-> [c \in Range(df.columns) |->
                        [i \in 1..Len(df.rows) |-> FormatCell(c, df.rows[i][c])]],
          n |-> Len(df.rows)]

CacheInitCtor ==
    /\ cache_df = None
    /\ cache_out = None
    /\ cache_pc = "idle"

CacheInit ==
    /\ \/ cache_df = None
       \/ \E cols \in CacheColumnLists, k \in 0..MaxCacheRows :
             \E rows \in [1..k -> CacheRows(cols)] :
                cache_df = [columns |-> cols, rows |-> rows]
    /\ cache_out = None
    /\ cache_pc = "call"

\* cache, n = build_display_cache(df)
CacheCall ==
    /\ cache_pc = "call"
    /\ cache_out' = build_display_cache(cache_df)
    /\ cache_pc' = "done"
    /\ UNCHANGED cache_df

(***************************************************************************)
(* Sortable table views: InstDayDataSubsheet (sheets/instrument_day.py),   *)
(* EODDataSubsheet (sheets/end_of_day.py), ReportDataTable                 *)
(* (sheets/report.py).  A viewed table has a float column a, whose cells    *)
(* may be NaN, an integer column b and the boolean column flag_00, which   *)
(* the Instrument-Day view filters on.                                     *)
(***************************************************************************)
MaxViewRows == 2

ViewClasses == {"InstDayDataSubsheet", "EODDataSubsheet", "ReportDataTable"}
SortCols == {"a", "b"}
ViewRows == [a : {NaN, Num(1), Num(2)}, b : {Num(1), Num(2)}, flag_00 : BOOLEAN]
ViewTables ==
    {[columns |-> <<"a", "b", "flag_00">>, rows |-> r] : r \in SeqsOf(ViewRows, 0, MaxViewRows)}

\* A descending sort taken as the ascending sort read backwards.
sort_values_ReversedAscending(df, col, asc) ==
    LET valued == SelectSeq(df.rows, LAMBDA r : ~r[col].na)
        nans   == SelectSeq(df.rows, LAMBDA r : r[col].na)
        up     == Take(valued, Argsort([i \in 1..Len(valued) |-> <<valued[i][col].v>>], TRUE))
    IN  [columns |-> df.columns,
         rows |-> (IF asc THEN up ELSE Reverse(up)) \o nans]

\* df.sort_values(by=col, ascending=asc, kind="mergesort").reset_index(drop=True)
\* The rows with a value are sorted stably; the rows whose cell is NaN
\* follow in their original order, in both directions (na_position="last").
sort_values(df, col, asc) ==
    LET valued == SelectSeq(df.rows, LAMBDA r : ~r[col].na)
        nans   == SelectSeq(df.rows, LAMBDA r : r[col].na)
    IN  [columns |-> df.columns,
         rows |-> Take(valued, Argsort([i \in 1..Len(valued) |-> <<valued[i][col].v>>], asc))
                  \o nans]

\* The loop of _apply_filters over bool_vars, for the one flag column.
FilterBool(df, v) ==
    [columns |-> df.columns,
     rows |-> SelectSeq(df.rows, LAMBDA r : CASE v = "True" -> r.flag_00 = TRUE
                                              [] v = "False" -> r.flag_00 = FALSE
                                              [] OTHER -> TRUE)]

\* The viewed table with the cells of flag_00 as the cache builder reads
\* them: a value that is never missing.
ViewCells(df) ==
    IF df = None THEN None
    ELSE [columns |-> df.columns,
          rows |-> [i \in 1..Len(df.rows) |->
                      [a |-> df.rows[i].a, b |-> df.rows[i].b,
                       flag_00 |-> [na |-> FALSE, v |-> df.rows[i].flag_00]]]]

\* self._cache, self._cache_len = build_display_cache(df)
ViewBuildCache(df) == build_display_cache(ViewCells(df))

\* The column selections the chooser is closed with: none, one column, two.
ChooserSelections == {<<>>, <<"a">>, <<"b", "flag_00">>}

ViewInitCtor ==
    /\ view_cls = "EODDataSubsheet"
    /\ view_df = None
    /\ view_df_view = None
    /\ sort_col = NoneStr
    /\ sort_asc = TRUE
    /\ bool_var = "All"
    /\ view_op = "idle"
    /\ view_visible = NoneList
    /\ view_cache = [cache |-> <<>>, n |-> 0]
    /\ cache_built = FALSE

ViewInit ==
    /\ view_cls \in ViewClasses
    /\ view_df = None
    /\ view_df_view = None
    /\ sort_col = NoneStr
    /\ sort_asc = TRUE
    /\ bool_var = "All"
    /\ view_op = "__init__"
    /\ view_visible = NoneList
    /\ view_cache = [cache |-> <<>>, n |-> 0]
    /\ cache_built = FALSE

\* set_df(df) of the three classes.  InstDayDataSubsheet rebuilds its bool
\* filters (all "All") and ends in _apply_filters.
set_df(df) ==
    /\ view_df' = df
    /\ sort_col' = NoneStr
    /\ sort_asc' = TRUE
    /\ IF view_cls = "InstDayDataSubsheet"
       THEN /\ bool_var' = "All"
            /\ view_df_view' = IF Empty(df) THEN df ELSE FilterBool(df, "All")
       ELSE /\ view_df_view' = df
            /\ UNCHANGED bool_var
    /\ IF Empty(df)
       THEN /\ view_visible' = NoneList
            \* self._cache.clear(); self._cache_len = 0
            /\ view_cache' = [cache |-> <<>>, n |-> 0]
            /\ cache_built' = FALSE
       ELSE /\ view_visible' = IF view_visible = NoneList THEN df.columns ELSE view_visible
            /\ view_cache' = ViewBuildCache(view_df_view')
            /\ cache_built' = TRUE
    /\ view_op' = "set_df"
    /\ UNCHANGED view_cls

\* The owner sheet hands the view a table: any table the first time, the
\* same table again on a reload.
ViewSetDf ==
    \E df \in (IF view_df = None THEN ViewTables ELSE {view_df}) : set_df(df)

\* InstDayDataSubsheet._apply_filters, after the user set the combobox.
ViewApplyFilters ==
    /\ view_cls = "InstDayDataSubsheet"
    /\ view_df # None
    /\ \E v \in {"All", "True", "False"} :
        /\ bool_var' = v
        /\ view_df_view' = IF Empty(view_df) THEN view_df ELSE FilterBool(view_df, v)
    /\ IF Empty(view_df)
       THEN /\ UNCHANGED view_cache
            /\ cache_built' = FALSE
       ELSE /\ view_cache' = ViewBuildCache(view_df_view')
            /\ cache_built' = TRUE
    /\ view_op' = "_apply_filters"
    /\ UNCHANGED <<view_cls, view_df, sort_col, sort_asc, view_visible>>

\* The table _sort_by sorts: InstDayDataSubsheet reads self._df_view,
\* EODDataSubsheet and ReportDataTable read self._df.
SortSource ==
    IF view_cls = "InstDayDataSubsheet" THEN view_df_view ELSE view_df

\* _sort_by(col): a click on a column heading.
_sort_by(col) ==
    /\ SortSource # None
    /\ ~Empty(SortSource)
    /\ LET asc == IF sort_col = col THEN ~sort_asc ELSE TRUE IN
        /\ sort_col' = col
        /\ sort_asc' = asc
        /\ view_df_view' = sort_values(SortSource, col, asc)
    /\ view_cache' = ViewBuildCache(view_df_view')
    /\ cache_built' = TRUE
    /\ view_op' = "_sort_by"
    /\ UNCHANGED <<view_cls, view_df, bool_var, view_visible>>

ViewSortBy == \E col \in SortCols : _sort_by(col)

\* The table the column chooser opens on: InstDayDataSubsheet reads
\* self._df_view, the two others self._df.
ChooserSource ==
    IF view_cls = "InstDayDataSubsheet" THEN view_df_view ELSE view_df

\* apply_and_close of the column chooser, closed with the selection sel.
apply_and_close(sel) ==
    /\ ChooserSource # None
    /\ ~Empty(ChooserSource)
    /\ view_op' = "apply_and_close"
    /\ UNCHANGED <<view_cls, view_df, sort_col, sort_asc, bool_var>>
    /\ IF sel = <<>> THEN
            \* showwarning "Select at least one column."
            /\ cache_built' = FALSE
            /\ UNCHANGED <<view_df_view, view_visible, view_cache>>
       ELSE
            /\ view_visible' = sel
            /\ CASE view_cls = "InstDayDataSubsheet" ->
                        /\ cache_built' = FALSE
                        /\ UNCHANGED <<view_df_view, view_cache>>
                 [] view_cls = "EODDataSubsheet" ->
                        \* self._df_view = self._df  # reset view
                        /\ view_df_view' = view_df
                        /\ view_cache' = ViewBuildCache(view_df)
                        /\ cache_built' = TRUE
                 [] OTHER ->
                        /\ view_df_view' = IF view_df_view = None THEN view_df
                                           ELSE view_df_view
                        /\ view_cache' = ViewBuildCache(view_df_view')
                        /\ cache_built' = TRUE

ViewApplyAndClose == \E sel \in ChooserSelections : apply_and_close(sel)

(***************************************************************************)
(* Navigation between the sheets with a table loaded: app.py               *)
(***************************************************************************)
\* The application after a successful load, the Raw Data sheet raised.
NavAppInit ==
    /\ current_df \in {df \in AppTables : validate_trade_df(df) = "ok"}
    /\ result_queue = <<>>
    /\ workers = <<>>
    /\ sheet_df = [s \in Sheets |-> current_df]
    /\ selected = "raw"
    /\ from_var = "2024-01-01"
    /\ to_var = "2024-01-02"
    /\ load_btn = "normal"
    /\ progress = FALSE
    /\ status_var = "Loaded."
    /\ rows_var = set_rows_info(current_df)
    /\ dialog = NoneStr
    /\ poll_armed = TRUE
    /\ app_op = "_poll_results"

\* The table the sheet's view shows: a rises where b falls, one row flagged.
NavTable ==
    [columns |-> <<"a", "b", "flag_00">>,
     rows |-> <<[a |-> Num(1), b |-> Num(2), flag_00 |-> TRUE],
                [a |-> Num(2), b |-> Num(1), flag_00 |-> FALSE]>>]

\* The view of one of the sheets as set_df(NavTable) left it.
NavViewInit ==
    /\ view_cls \in ViewClasses
    /\ view_df = NavTable
    /\ view_df_view = NavTable
    /\ sort_col = NoneStr
    /\ sort_asc = TRUE
    /\ bool_var = "All"
    /\ view_op = "set_df"
    /\ view_visible = SomeList(NavTable.columns)
    /\ view_cache = ViewBuildCache(NavTable)
    /\ cache_built = TRUE

\* The report sheet in on_df_loaded over an End-of-Day table of one row,
\* instrument 1 on day 1.
NavReportInit ==
    /\ PresetInit
    /\ Len(rep_eod.rows) = 1
    /\ rep_eod.rows[1].instrument = 1
    /\ rep_eod.rows[1].day = 1
    /\ rep_eod.rows[1].Total = Num(1)

\* The sheet that owns the view.
SheetOfView ==
    CASE view_cls = "InstDayDataSubsheet" -> "instday"
      [] view_cls = "EODDataSubsheet" -> "eod"
      [] OTHER -> "report"

\* ReportSheet.on_df_loaded(df) on the table the sheet already holds: the
\* End-of-Day table is rebuilt to the same value, the fields listbox is
\* refilled with its default selection, and _apply_report runs.
report_on_df_loaded ==
    /\ rep_pc' = "done"
    /\ UNCHANGED <<rep_eod, n_var, portfolio_var, metric_var, preset_saved>>
    /\ IF rep_eod = None \/ Empty(rep_eod) THEN
            /\ info_var' = "No data available."
            /\ data_set_df(None)
            /\ UNCHANGED <<rep_from_var, rep_to_var, df_range, df_report, kpis, fields_sel>>
       ELSE
            /\ fields_sel' = DefaultFields
            /\ apply_report(rep_from_var, rep_to_var, n_var, metric_var, portfolio_var,
                            DefaultFields)

\* show_sheet(sheet_id) with a table loaded: the sheet is raised and its
\* on_df_loaded runs, which hands the view its table again through set_df.
NavShowSheet ==
    \E sheet_id \in Sheets :
        /\ current_df # None
        /\ show_sheet(sheet_id)
        /\ IF sheet_id = "report" THEN report_on_df_loaded ELSE UNCHANGED repVars
        /\ IF sheet_id = SheetOfView THEN set_df(view_df) ELSE UNCHANGED viewVars

(***************************************************************************)
(* Specifications                                                          *)
(***************************************************************************)
EodInit ==
    /\ df_all \in TradeTables
    /\ df_eod = None
    /\ eod_pc = "call"

ReportInit ==
    /\ rep_eod \in RepEodTables \cup {ScenarioTable}
    /\ rep_from_var \in DateTexts
    /\ rep_to_var = "2024-01-01"
    /\ n_var \in NValues
    /\ portfolio_var \in {"ALL", "MM_CORE"}
    /\ metric_var = DefaultMetric
    /\ df_range = None
    /\ df_report = None
    /\ data_df = None
    /\ kpis = None
    /\ info_var = ""
    /\ rep_pc = "call"
    /\ fields_sel = DefaultFields
    /\ preset_saved = None
    /\ data_visible = NoneList
    /\ data_rendered = <<>>

Init == AppInit /\ EodInitCtor /\ ReportInitCtor /\ ColsInitCtor /\ ViewInitCtor /\ FlagInitCtor /\ CacheInitCtor /\ FieldsInitCtor /\ IoInitCtor
Next ==
    \/ ClickLoad /\ UNCHANGED <<eodVars, repVars, colVars, viewVars, schVars, cacheVars, fldVars, ioVars>>
    \/ ReturnKey /\ UNCHANGED <<eodVars, repVars, colVars, viewVars, schVars, cacheVars, fldVars, ioVars>>
    \/ \E w \in 1..Len(workers) :
            WorkerLoad(w) /\ UNCHANGED <<eodVars, repVars, colVars, viewVars, schVars, cacheVars, fldVars, ioVars>>
    \/ \E w \in 1..Len(workers) :
            WorkerValidate(w) /\ UNCHANGED <<eodVars, repVars, colVars, viewVars, schVars, cacheVars, fldVars, ioVars>>
    \/ \E w \in 1..Len(workers) :
            WorkerPutOk(w) /\ UNCHANGED <<eodVars, repVars, colVars, viewVars, schVars, cacheVars, fldVars, ioVars>>
    \/ \E w \in 1..Len(workers) :
            WorkerPutErr(w) /\ UNCHANGED <<eodVars, repVars, colVars, viewVars, schVars, cacheVars, fldVars, ioVars>>
    \/ PollEmpty /\ UNCHANGED <<eodVars, repVars, colVars, viewVars, schVars, cacheVars, fldVars, ioVars>>
    \/ PollPayload /\ UNCHANGED <<eodVars, repVars, colVars, viewVars, schVars, cacheVars, fldVars, ioVars>>
    \/ ShowSheet /\ UNCHANGED <<eodVars, repVars, colVars, viewVars, schVars, cacheVars, fldVars, ioVars>>
Spec == Init /\ [][Next]_vars

\* The main loop of Tk runs a callback scheduled with after(): a poll that is
\* armed is eventually run.
SpecLive == Init /\ [][Next]_vars /\ WF_appVars(PollEmpty \/ PollPayload)

InitEod == AppInit /\ EodInit /\ ReportInitCtor /\ ColsInitCtor /\ ViewInitCtor /\ FlagInitCtor /\ CacheInitCtor /\ FieldsInitCtor /\ IoInitCtor
NextEod == EodOnDfLoaded /\ UNCHANGED <<appVars, repVars, colVars, viewVars, schVars, cacheVars, fldVars, ioVars>>
SpecEod == InitEod /\ [][NextEod]_vars

InitReport == AppInit /\ EodInitCtor /\ ReportInit /\ ColsInitCtor /\ ViewInitCtor /\ FlagInitCtor /\ CacheInitCtor /\ FieldsInitCtor /\ IoInitCtor
NextReport == _apply_report /\ UNCHANGED <<appVars, eodVars, colVars, viewVars, schVars, cacheVars, fldVars, ioVars>>
SpecReport == InitReport /\ [][NextReport]_vars

InitCols == AppInit /\ EodInitCtor /\ ReportInitCtor /\ ColsInit /\ ViewInitCtor /\ FlagInitCtor /\ CacheInitCtor /\ FieldsInitCtor /\ IoInitCtor
NextCols ==
    \/ SelectOnce /\ UNCHANGED <<appVars, eodVars, repVars, viewVars, schVars, cacheVars, fldVars, ioVars>>
    \/ SelectTwice /\ UNCHANGED <<appVars, eodVars, repVars, viewVars, schVars, cacheVars, fldVars, ioVars>>
SpecCols == InitCols /\ [][NextCols]_vars

InitFlags == AppInit /\ EodInitCtor /\ ReportInitCtor /\ ColsInitCtor /\ ViewInitCtor /\ FlagInit /\ CacheInitCtor /\ FieldsInitCtor /\ IoInitCtor
NextFlags == FlagCall /\ UNCHANGED <<appVars, eodVars, repVars, colVars, viewVars, cacheVars, fldVars, ioVars>>
SpecFlags == InitFlags /\ [][NextFlags]_vars

InitCache == AppInit /\ EodInitCtor /\ ReportInitCtor /\ ColsInitCtor /\ ViewInitCtor /\ FlagInitCtor /\ CacheInit /\ FieldsInitCtor /\ IoInitCtor
NextCache == CacheCall /\ UNCHANGED <<appVars, eodVars, repVars, colVars, viewVars, schVars, fldVars, ioVars>>
SpecCache == InitCache /\ [][NextCache]_vars

InitFields == AppInit /\ EodInitCtor /\ ReportInitCtor /\ ColsInitCtor /\ ViewInitCtor /\ FlagInitCtor /\ CacheInitCtor /\ FieldsInit /\ IoInitCtor
NextFields == FieldsCall /\ UNCHANGED <<appVars, eodVars, repVars, colVars, viewVars, schVars, cacheVars, ioVars>>
SpecFields == InitFields /\ [][NextFields]_vars

InitPreset == AppInit /\ EodInitCtor /\ PresetInit /\ ColsInitCtor /\ ViewInitCtor /\ FlagInitCtor /\ CacheInitCtor /\ FieldsInitCtor /\ IoInitCtor
NextPreset ==
    \/ _apply_report /\ UNCHANGED <<appVars, eodVars, colVars, viewVars, schVars, cacheVars, fldVars, ioVars>>
    \/ LoadPreset /\ UNCHANGED <<appVars, eodVars, colVars, viewVars, schVars, cacheVars, fldVars, ioVars>>
SpecPreset == InitPreset /\ [][NextPreset]_vars

InitRoundTrip == AppInit /\ EodInitCtor /\ RoundTripInit /\ ColsInitCtor /\ ViewInitCtor /\ FlagInitCtor /\ CacheInitCtor /\ FieldsInitCtor /\ IoInitCtor
NextRoundTrip ==
    \/ CapturePreset /\ UNCHANGED <<appVars, eodVars, colVars, viewVars, schVars, cacheVars, fldVars, ioVars>>
    \/ EditControls /\ UNCHANGED <<appVars, eodVars, colVars, viewVars, schVars, cacheVars, fldVars, ioVars>>
    \/ LoadSaved /\ UNCHANGED <<appVars, eodVars, colVars, viewVars, schVars, cacheVars, fldVars, ioVars>>
SpecRoundTrip == InitRoundTrip /\ [][NextRoundTrip]_vars

InitApply == AppInit /\ EodInitCtor /\ RoundTripInit /\ ColsInitCtor /\ ViewInitCtor /\ FlagInitCtor /\ CacheInitCtor /\ FieldsInitCtor /\ IoInitCtor
NextApply ==
    \/ _apply_report /\ UNCHANGED <<appVars, eodVars, colVars, viewVars, schVars, cacheVars, fldVars, ioVars>>
    \/ ChangeSelection /\ UNCHANGED <<appVars, eodVars, colVars, viewVars, schVars, cacheVars, fldVars, ioVars>>
SpecApply == InitApply /\ [][NextApply]_vars

InitNav == NavAppInit /\ EodInitCtor /\ NavReportInit /\ ColsInitCtor /\ NavViewInit /\ FlagInitCtor /\ CacheInitCtor /\ FieldsInitCtor /\ IoInitCtor
NextNav ==
    \/ NavShowSheet /\ UNCHANGED <<eodVars, colVars, schVars, cacheVars, fldVars, ioVars>>
    \/ ViewSortBy /\ UNCHANGED <<appVars, eodVars, repVars, colVars, schVars, cacheVars, fldVars, ioVars>>
    \/ ViewApplyFilters /\ UNCHANGED <<appVars, eodVars, repVars, colVars, schVars, cacheVars, fldVars, ioVars>>
    \/ _apply_report /\ UNCHANGED <<appVars, eodVars, colVars, viewVars, schVars, cacheVars, fldVars, ioVars>>
    \/ ChangeSelection /\ UNCHANGED <<appVars, eodVars, colVars, viewVars, schVars, cacheVars, fldVars, ioVars>>
SpecNav == InitNav /\ [][NextNav]_vars

InitIo == AppInit /\ EodInitCtor /\ IoReportInit /\ ColsInitCtor /\ ViewInitCtor /\ FlagInitCtor /\ CacheInitCtor /\ FieldsInitCtor /\ IoInit
NextIo ==
    \/ _apply_report /\ UNCHANGED <<appVars, eodVars, colVars, viewVars, schVars, cacheVars, fldVars, ioVars>>
    \/ SavePreset /\ UNCHANGED <<appVars, eodVars, colVars, viewVars, schVars, cacheVars, fldVars>>
    \/ OpenLoadPreset /\ UNCHANGED <<appVars, eodVars, colVars, viewVars, schVars, cacheVars, fldVars>>
    \/ LoadSelected /\ UNCHANGED <<appVars, eodVars, colVars, viewVars, schVars, cacheVars, fldVars>>
    \/ CancelLoad /\ UNCHANGED <<appVars, eodVars, colVars, viewVars, schVars, cacheVars, fldVars>>
    \/ CreateHtml /\ UNCHANGED <<appVars, eodVars, colVars, viewVars, schVars, cacheVars, fldVars>>
SpecIo == InitIo /\ [][NextIo]_vars

InitView == AppInit /\ EodInitCtor /\ ReportInitCtor /\ ColsInitCtor /\ ViewInit /\ FlagInitCtor /\ CacheInitCtor /\ FieldsInitCtor /\ IoInitCtor
NextView ==
    \/ ViewSetDf /\ UNCHANGED <<appVars, eodVars, repVars, colVars, schVars, cacheVars, fldVars, ioVars>>
    \/ ViewApplyFilters /\ UNCHANGED <<appVars, eodVars, repVars, colVars, schVars, cacheVars, fldVars, ioVars>>
    \/ ViewSortBy /\ UNCHANGED <<appVars, eodVars, repVars, colVars, schVars, cacheVars, fldVars, ioVars>>
    \/ ViewApplyAndClose /\ UNCHANGED <<appVars, eodVars, repVars, colVars, schVars, cacheVars, fldVars, ioVars>>
SpecView == InitView /\ [][NextView]_vars

(***************************************************************************)
(* Properties                                                              *)
(***************************************************************************)
TimeLeq(t1, t2) == t1 = t2 \/ LexLess(t1, t2)

\* C1: for every non-empty trade table the End-of-Day reducer returns
\* exactly one row per (instrument, calendar day of tradeTime) pair of the
\* input - no pair missing, none twice - and the row kept for a pair is a
\* row of that pair's group with the group's maximum tradeTime.
C1_EodOneRowPerPairWithMaxTime ==
    (eod_pc = "done" /\ TradeCols \subseteq df_all.columns /\ ~Empty(df_all)) =>
        /\ df_eod # None
        /\ \A i \in 1..Len(df_all.rows) :
              Cardinality({k \in 1..Len(df_eod.rows) :
                  /\ df_eod.rows[k].instrument = df_all.rows[i].instrument
                  /\ df_eod.rows[k].day = df_all.rows[i].tradeTime[1]}) = 1
        /\ \A k \in 1..Len(df_eod.rows) :
              /\ \E i \in 1..Len(df_all.rows) :
                    /\ df_all.rows[i].instrument = df_eod.rows[k].instrument
                    /\ df_all.rows[i].tradeTime = df_eod.rows[k].tradeTime
                    /\ df_all.rows[i].tradeTime[1] = df_eod.rows[k].day
              /\ \A i \in 1..Len(df_all.rows) :
                    (/\ df_all.rows[i].instrument = df_eod.rows[k].instrument
                     /\ df_all.rows[i].tradeTime[1] = df_eod.rows[k].day)
                    => TimeLeq(df_all.rows[i].tradeTime, df_eod.rows[k].tradeTime)

\* C1 witness: three trades, two of one (instrument, day) group with the
\* later one first in the table, reduced to two End-of-Day rows.
C1_Witness ==
    /\ eod_pc = "done"
    /\ TradeCols \subseteq df_all.columns
    /\ Len(df_all.rows) = 3
    /\ df_all.rows[1].instrument = df_all.rows[2].instrument
    /\ df_all.rows[1].tradeTime[1] = df_all.rows[2].tradeTime[1]
    /\ df_all.rows[1].tradeTime[2] > df_all.rows[2].tradeTime[2]
    /\ df_eod # None
    /\ Len(df_eod.rows) = 2

\* The report of the last _apply_report was built from a non-empty range.
ReportBuilt == rep_pc = "done" /\ df_range # None /\ ~Empty(df_range)

SectionRows(df, section) == SelectSeq(df.rows, LAMBDA r : r.section = section)

\* The metric of the filtered set in units of 1/Scale, NaN counted as 0.
RangeMetric == [i \in 1..Len(df_range.rows) |->
                  IF df_range.rows[i].Total.na THEN 0 ELSE df_range.rows[i].Total.v]

\* The nearest integer to h/Scale, halves to the even neighbour.
NearestEven(h) ==
    CHOOSE z \in (h \div Scale)..((h \div Scale) + 1) :
        \A y \in (h \div Scale)..((h \div Scale) + 1) :
            LET dz == IF z * Scale >= h THEN z * Scale - h ELSE h - z * Scale
                dy == IF y * Scale >= h THEN y * Scale - h ELSE h - y * Scale
            IN  dz < dy \/ (dz = dy /\ (z % 2 = 0 \/ y = z))

\* C2 as stated: the TOTAL row's metric_value equals the sum of the metric
\* over all rows of the filtered/ranged set.
C2_TotalEqualsSum ==
    ReportBuilt =>
        SectionRows(df_report, "TOTAL")[1].metric_value * Scale = SumSeq(RangeMetric)

\* C2 amended: the TOTAL row's metric_value equals the sum of the metric
\* (missing values counted as 0) over all rows of the filtered/ranged set,
\* rounded to the nearest integer with halves to even; the value is a
\* function of the filtered set alone, so it is the same for every N
\* (n_var takes every value of NValues in the reachable states).
C2_TotalIsRoundedSumForEveryN ==
    ReportBuilt =>
        LET total == SectionRows(df_report, "TOTAL")
        IN  /\ Len(total) = 1
            /\ total[1].metric_value = NearestEven(SumSeq(RangeMetric))

\* C2 witness: a report with N = 1 over three rows whose metric sums to a
\* half, so that neither block holds every row and the total is rounded.
C2_Witness ==
    /\ ReportBuilt
    /\ Len(df_range.rows) = 3
    /\ n_var = 1
    /\ SumSeq(RangeMetric) % Scale # 0

\* n after clamping to [1, 50000]
ClampedN == IF n_var < 1 THEN 1 ELSE IF n_var > MaxN THEN MaxN ELSE n_var

\* C3: for every non-empty filtered set of rowCount rows and every
\* requested n clamped to [1, 50000], the Top block and the Bottom block
\* of the report each have exactly min(n, rowCount) rows.
C3_BlockSizes ==
    ReportBuilt =>
        /\ Len(SectionRows(df_report, "Top")) = Min(ClampedN, Len(df_range.rows))
        /\ Len(SectionRows(df_report, "Bottom")) = Min(ClampedN, Len(df_range.rows))

\* C3 witness: N below the clamp's lower limit with two rows in range (one
\* row per block), the range being a proper part of the End-of-Day table.
C3_Witness ==
    /\ ReportBuilt
    /\ n_var = 0
    /\ Len(df_range.rows) = 2
    /\ Len(rep_eod.rows) = 3
    /\ Len(SectionRows(df_report, "Top")) = 1

\* The ranking key of a report row: the metric of its source row (the row
\* of the filtered set with its instrument and day), NaN counted as 0.
KeyOf(r) ==
    LET i == CHOOSE j \in 1..Len(df_range.rows) :
                /\ df_range.rows[j].instrument = r.instrument
                /\ df_range.rows[j].day = r.day
    IN  RangeMetric[i]

SameSource(r1, r2) == r1.instrument = r2.instrument /\ r1.day = r2.day

BlocksDisjoint ==
    LET top == SectionRows(df_report, "Top")
        bot == SectionRows(df_report, "Bottom")
    IN  \A i \in 1..Len(top) : \A j \in 1..Len(bot) : ~SameSource(top[i], bot[j])

\* C4: whenever the Top and Bottom blocks share no row, the smallest
\* ranking key in the Top block is greater than or equal to the largest
\* ranking key in the Bottom block.
C4_TopAboveBottom ==
    (ReportBuilt /\ BlocksDisjoint) =>
        LET top == SectionRows(df_report, "Top")
            bot == SectionRows(df_report, "Bottom")
        IN  \A i \in 1..Len(top) : \A j \in 1..Len(bot) : KeyOf(top[i]) >= KeyOf(bot[j])

\* C4 witness: disjoint blocks over three rows, the row of greatest
\* magnitude being the negative one.
C4_Witness ==
    /\ ReportBuilt
    /\ BlocksDisjoint
    /\ Len(df_range.rows) = 3
    /\ \E i, j \in 1..3 : RangeMetric[i] < 0 /\ RangeMetric[j] > 0
                          /\ -RangeMetric[i] > RangeMetric[j]

(***************************************************************************)
(* Loading: header, worker thread, result queue, poll handler              *)
(***************************************************************************)
\* A step of some worker thread: the threads are the same, one of them
\* moved.
WorkerAdvanced == Len(workers') = Len(workers) /\ workers' # workers

\* The entries hold an inverted range or malformed date text.
BadRequest(from_s, to_s) ==
    \/ ~parse_iso_date(from_s).ok
    \/ ~parse_iso_date(to_s).ok
    \/ parse_iso_date(to_s).date < parse_iso_date(from_s).date

\* C5: a load request with toDate < fromDate or with malformed date text
\* starts no worker, puts nothing on the result queue and leaves the
\* current table, every sheet's table, the loading indicator (button and
\* progress bar), the status and the rows-info text unchanged; it only
\* shows the input error.
C5_BadRequestChangesNothing ==
    [][(app_op' = "load_button_pressed" /\ ~WorkerAdvanced /\ BadRequest(from_var', to_var'))
       => /\ UNCHANGED <<current_df, sheet_df, workers, result_queue, load_btn, progress,
                         rows_var, status_var>>
          /\ dialog' \in {"Invalid date", "Invalid range"}]_vars

\* C5 witness: an inverted range was rejected while a loaded table is
\* active and displayed.
C5_Witness ==
    /\ app_op = "load_button_pressed"
    /\ from_var = "2024-01-02"
    /\ to_var = "2024-01-01"
    /\ dialog = "Invalid range"
    /\ current_df # None
    /\ rows_var = set_rows_info(current_df)
    /\ \A s \in Sheets : sheet_df[s] = current_df
    /\ load_btn = "normal"
    /\ workers # <<>>
    /\ \A w \in 1..Len(workers) : workers[w].pc = "done"

\* C6: the poll handler applying a failure payload leaves the current table
\* unchanged and notifies no sheet, clears the loading indicator and shows
\* the failure.
C6_FailureKeepsTable ==
    [][(result_queue # <<>> /\ Head(result_queue).kind = "err"
        /\ result_queue' = Tail(result_queue))
       => /\ current_df' = current_df
          /\ sheet_df' = sheet_df
          /\ load_btn' = "normal"
          /\ progress' = FALSE
          /\ dialog' = "Load failed"]_vars

\* C6 witness: a failure payload was applied while a table was loaded; the
\* table is still the active one.
C6_Witness ==
    /\ app_op = "_poll_results"
    /\ status_var = "Ready."
    /\ dialog = "Load failed"
    /\ current_df # None
    /\ \A s \in Sheets : sheet_df[s] = current_df
    /\ load_btn = "normal"
    /\ progress = FALSE

\* C7: a worker step never changes the current table, a sheet's table or
\* the header; it leaves the result queue alone or appends one payload.
\* The current table changes only in a step of the poll handler.
C7_OnlyPollWritesTable ==
    [][/\ WorkerAdvanced =>
            /\ UNCHANGED <<current_df, sheet_df, load_btn, progress, status_var, rows_var,
                           dialog>>
            /\ \/ result_queue' = result_queue
               \/ /\ Len(result_queue') = Len(result_queue) + 1
                  /\ SubSeq(result_queue', 1, Len(result_queue)) = result_queue
       /\ current_df' # current_df =>
            /\ app_op' = "_poll_results"
            /\ workers' = workers
            /\ result_queue # <<>>
            /\ current_df' = Head(result_queue).payload]_vars

\* C7 witness: a worker has finished and its table waits on the queue; the
\* current table is still unset.
C7_Witness ==
    /\ \E w \in 1..Len(workers) : workers[w].pc = "done"
    /\ result_queue # <<>>
    /\ Head(result_queue).kind = "ok"
    /\ current_df = None

\* The table satisfies the schema: every production column, TotalColumns
\* columns in all, tradeTime of a datetime type.
SchemaOk(df) == df.missing = 0 /\ NCols(df) = TotalColumns /\ df.time_dt

\* Worker w finishes in this step.
Finishes(w) == workers[w].pc # "done" /\ workers'[w].pc = "done"

\* C8: a worker has finished exactly when it has put one payload, and it
\* puts it in its finishing step: a success payload only when the source
\* returned a table that satisfies the schema, otherwise a failure payload
\* carrying the raised condition.  A worker holding a raised condition can
\* only put it.  No table that fails the schema is queued as a success or
\* becomes the current table.
C8_OnePayloadPerWorker ==
    /\ [](/\ \A w \in 1..Len(workers) :
               /\ workers[w].puts \in {0, 1}
               /\ workers[w].pc = "done" <=> workers[w].puts = 1
          /\ \A k \in 1..Len(result_queue) :
               result_queue[k].kind = "ok" => SchemaOk(result_queue[k].payload)
          /\ current_df # None => SchemaOk(current_df))
    /\ [][WorkerAdvanced =>
            \A w \in 1..Len(workers) :
                /\ Len(result_queue') > Len(result_queue) =>
                      (workers'[w] # workers[w] => Finishes(w))
                /\ Finishes(w) =>
                      /\ Len(result_queue') = Len(result_queue) + 1
                      /\ LET put == result_queue'[Len(result_queue')] IN
                           IF workers[w].err = None
                           THEN /\ workers[w].df # None
                                /\ SchemaOk(workers[w].df)
                                /\ put = [kind |-> "ok", payload |-> workers[w].df]
                           ELSE put = [kind |-> "err", payload |-> workers[w].err]
                /\ (workers[w].err # None /\ workers'[w] # workers[w]) => Finishes(w)]_vars

\* C8 witness: two workers have finished, one with a table that became the
\* current table, one with a table that failed validation and whose
\* failure payload waits on the queue.
C8_Witness ==
    /\ Len(workers) = 2
    /\ \A w \in 1..2 : workers[w].pc = "done" /\ workers[w].puts = 1
    /\ current_df # None
    /\ Len(result_queue) = 1
    /\ result_queue[1] = [kind |-> "err", payload |-> [exc |-> "ValueError"]]

(***************************************************************************)
(* Column selection                                                        *)
(***************************************************************************)
\* C9 as stated: selecting with the result of a selection gives that result
\* again, for every column list and every requested list.
C9_SelectionIdempotent ==
    cols_pc = "done" => cols_twice = cols_once

(***************************************************************************)
(* Sorting in the table views                                              *)
(***************************************************************************)
\* The table a view was given, behind the view's filter.
ViewOriginal ==
    IF view_cls = "InstDayDataSubsheet" THEN FilterBool(view_df, bool_var) ELSE view_df

\* C10 as stated: after every sort-by-column action, in each of the three
\* views, the rows shown are the original table sorted by the column in the
\* direction, whatever sorts came before.
C10_SortIsFullResort ==
    view_op = "_sort_by" => view_df_view = sort_values(ViewOriginal, sort_col, sort_asc)

\* A click on a column heading took effect: _sort_by ran past its guard.
SortStep == view_op' = "_sort_by" /\ (sort_col' # sort_col \/ sort_asc' # sort_asc)

\* No two rows have equal cells in the column.
NoTies(rows, col) == \A i, j \in 1..Len(rows) : rows[i][col] = rows[j][col] => i = j

\* No row's cell in the column is missing.
NoMissing(rows, col) == \A i \in 1..Len(rows) : ~rows[i][col].na

\* The rows with a value in the column are in the direction's order.
Ordered(rows, col, asc) ==
    \A i, j \in 1..Len(rows) :
        (i < j /\ ~rows[i][col].na /\ ~rows[j][col].na) =>
            IF asc THEN rows[i][col].v <= rows[j][col].v
            ELSE rows[i][col].v >= rows[j][col].v

\* The rows with equal cells in the column come in the same order in both.
SameOrderOfTies(before, after, col) ==
    \A i \in 1..Len(before) :
        SelectSeq(after, LAMBDA r : r[col] = before[i][col])
            = SelectSeq(before, LAMBDA r : r[col] = before[i][col])

\* The second of two sorts on one column, the first having been ascending.
SecondSortStep ==
    SortStep /\ view_op = "_sort_by" /\ sort_col' = sort_col /\ sort_asc

\* C11 as stated: the first sort after a table is set is ascending and the
\* next sort on the same column descending; when the column has no equal
\* values the descending order is the reverse of the ascending order; rows
\* with equal keys keep their prior relative order.
C11_SortStableReversible ==
    [][SortStep =>
        /\ view_op = "set_df" => sort_asc'
        /\ SecondSortStep =>
              /\ ~sort_asc'
              /\ NoTies(view_df_view.rows, sort_col) =>
                    view_df_view'.rows = Reverse(view_df_view.rows)
        /\ Ordered(view_df_view'.rows, sort_col', sort_asc')
        /\ SameOrderOfTies(SortSource.rows, view_df_view'.rows, sort_col')
        /\ (view_op = "set_df" \/ SecondSortStep) =>
              SameOrderOfTies(view_df_view.rows, view_df_view'.rows, sort_col')]_vars

\* C11 amended: as C11, the reverse order holding when the column has no
\* equal and no missing values.
C11_SortStableReversibleNoMissing ==
    [][SortStep =>
        /\ view_op = "set_df" => sort_asc'
        /\ SecondSortStep =>
              /\ ~sort_asc'
              /\ (NoTies(view_df_view.rows, sort_col)
                  /\ NoMissing(view_df_view.rows, sort_col)) =>
                    view_df_view'.rows = Reverse(view_df_view.rows)
        /\ Ordered(view_df_view'.rows, sort_col', sort_asc')
        /\ SameOrderOfTies(SortSource.rows, view_df_view'.rows, sort_col')
        /\ (view_op = "set_df" \/ SecondSortStep) =>
              SameOrderOfTies(view_df_view.rows, view_df_view'.rows, sort_col')]_vars

\* C11 witness: an End-of-Day view after the second sort on column a, whose
\* two cells differ and are not missing: the rows are the table's, reversed.
C11_Witness ==
    /\ view_cls = "EODDataSubsheet"
    /\ view_op = "_sort_by"
    /\ sort_col = "a"
    /\ ~sort_asc
    /\ Len(view_df.rows) = 2
    /\ NoTies(view_df.rows, "a")
    /\ NoMissing(view_df.rows, "a")
    /\ view_df_view.rows = Reverse(view_df.rows)

(***************************************************************************)
(* Flag columns                                                            *)
(***************************************************************************)
\* The number a sequence of decimal digits writes.
RECURSIVE DigitsValue(_)
DigitsValue(ds) ==
    IF ds = <<>> THEN 0 ELSE 10 * DigitsValue(SubSeq(ds, 1, Len(ds) - 1)) + ds[Len(ds)]

\* The name is flag_ followed by i, zero-padded to two digits.
IsFlagName(name, i) ==
    /\ name.prefix = "flag_"
    /\ \A k \in 1..Len(name.digits) : name.digits[k] \in 0..9
    /\ DigitsValue(name.digits) = i
    /\ Len(name.digits) >= 2
    /\ Len(name.digits) > 2 => name.digits[1] # 0

\* C12 as stated: with total_columns = 64 there are 20 fixed fields and
\* flag_cols returns 44 names, flag_00 .. flag_43.
C12_FortyFourFlags ==
    (flag_pc = "done" /\ total_columns = 64) =>
        /\ Len(PROD_COLS) = 20
        /\ ~flags.raised
        /\ Len(flags.value) = 44
        /\ \A k \in 1..44 : IsFlagName(flags.value[k], k - 1)

\* C12 amended: with total_columns = 64 there are 21 fixed fields and
\* flag_cols returns 43 names, flag_00 .. flag_42.
C12_FortyThreeFlags ==
    (flag_pc = "done" /\ total_columns = 64) =>
        /\ Len(PROD_COLS) = 21
        /\ ~flags.raised
        /\ Len(flags.value) = 43
        /\ \A k \in 1..43 : IsFlagName(flags.value[k], k - 1)

\* C12 witness: flag_cols returned for total_columns = 64, the last name
\* being flag_42.
C12_Witness ==
    /\ flag_pc = "done"
    /\ total_columns = 64
    /\ ~flags.raised
    /\ flags.value[Len(flags.value)] = [prefix |-> "flag_", digits |-> <<4, 2>>]

\* C13: for every total_columns, flag_cols raises exactly when total_columns
\* is smaller than the number of fixed fields; otherwise it returns
\* total_columns minus that number of names, the i-th (from 0) being flag_
\* followed by i zero-padded to two digits.
C13_FlagColsContract ==
    flag_pc = "done" =>
        /\ flags.raised <=> total_columns < Len(PROD_COLS)
        /\ flags.raised => flags = [raised |-> TRUE, exc |-> "ValueError"]
        /\ ~flags.raised =>
              /\ Len(flags.value) = total_columns - Len(PROD_COLS)
              /\ \A k \in 1..Len(flags.value) : IsFlagName(flags.value[k], k - 1)

\* C13 witness: total_columns = 10 raised, no list returned.
C13_Witness ==
    /\ flag_pc = "done"
    /\ total_columns = 10
    /\ flags = [raised |-> TRUE, exc |-> "ValueError"]

(***************************************************************************)
(* Display cache                                                           *)
(***************************************************************************)
\* C14: on a missing or empty table build_display_cache returns the empty
\* mapping and 0; on a non-empty table the mapping has every column, each
\* with a list of exactly rowCount strings, the string of a null cell being
\* empty whatever the column (and that of a cell with a value not).
C14_CacheShape ==
    cache_pc = "done" =>
        IF cache_df = None \/ Len(cache_df.rows) = 0 \/ Len(cache_df.columns) = 0
        THEN cache_out = [cache |-> <<>>, n |-> 0]
        ELSE /\ cache_out.n = Len(cache_df.rows)
             /\ DOMAIN cache_out.cache = Range(cache_df.columns)
             /\ \A c \in Range(cache_df.columns) :
                   /\ Len(cache_out.cache[c]) = Len(cache_df.rows)
                   /\ \A i \in 1..Len(cache_df.rows) :
                         cache_df.rows[i][c].na <=> cache_out.cache[c][i] = [text |-> ""]

\* C14 witness: a cache built of a table with all five columns and two
\* rows, the first with a null in every column.
C14_Witness ==
    /\ cache_pc = "done"
    /\ cache_df # None
    /\ cache_df.columns = CacheCols
    /\ Len(cache_df.rows) = 2
    /\ \A c \in Range(CacheCols) : cache_df.rows[1][c].na /\ ~cache_df.rows[2][c].na
    /\ \A c \in Range(CacheCols) : cache_out.cache[c][1] = [text |-> ""]

(***************************************************************************)
(* Display fields of the report                                            *)
(***************************************************************************)
\* The names of s in the set S, in the order of s.
Restrict(s, S) == SelectSeq(s, LAMBDA c : c \in S)

NoDuplicates(s) == \A i, j \in 1..Len(s) : i # j => s[i] # s[j]

NumericMetric(metric) ==
    metric # "" /\ metric \in ColumnsOf(rep_eod) /\ metric \notin TextColumns

\* C16: when the metric left by a loaded preset is not a numeric column of
\* the End-of-Day table (absent, empty, or a text column), applying the
\* report leaves an empty report and a status message, and no Top, Bottom
\* or TOTAL row.
C16_NonNumericMetricEmptyReport ==
    (rep_pc = "preset" /\ rep_eod # None /\ ~NumericMetric(metric_var)) =>
        /\ data_df = None \/ data_df.rows = <<>>
        /\ info_var # ""

(***************************************************************************)
(* Preset files and the HTML export                                        *)
(***************************************************************************)
\* C17: every I/O failure in preset save, preset load and HTML export is
\* caught and shown as an error dialog, no exception leaves the handler,
\* and no file is left partially written.
C17_IoFailuresCaughtAndAtomic ==
    /\ ~io_escaped
    /\ io_failed # "none" => io_dialog = "showerror"
    /\ preset_file # "partial"
    /\ html_file # "partial"

(***************************************************************************)
(* Display cache of the table views                                        *)
(***************************************************************************)
\* A handler that sets, sorts or filters the table has run.
TableStep == view_op' \in {"set_df", "_sort_by", "_apply_filters"}

\* The column chooser has been applied.
ChooserStep == view_op' = "apply_and_close"

\* C18: in every table view the display cache is that of the displayed
\* table after each set, sort and filter, and applying the column chooser
\* neither rebuilds the cache nor changes the displayed row order.
C18_CacheRebuiltOnlyOnTableChange ==
    [][/\ TableStep => view_cache' = ViewBuildCache(view_df_view')
       /\ ChooserStep => /\ ~cache_built'
                         /\ view_df_view' = view_df_view]_vars

(***************************************************************************)
(* KPIs of the report                                                      *)
(***************************************************************************)
\* The ranking keys of the rows of one block of the report, in units of
\* 1/Scale.
BlockKeys(section) ==
    LET rows == SectionRows(df_report, section)
    IN  [i \in 1..Len(rows) |-> KeyOf(rows[i])]

\* _apply_report built a report from a range without rows.
EmptyRangeBuilt == rep_pc = "done" /\ df_range # None /\ Empty(df_range)

\* C19 as stated: topSum is the sum of the metric over the Top rows,
\* bottomSum the sum over the Bottom rows, totalSum the TOTAL row's
\* metric_value and net = topSum + bottomSum; an empty filtered set gives an
\* empty report and no KPIs.
C19_KpisAreBlockSums ==
    /\ ReportBuilt =>
        /\ kpis # None
        /\ kpis.top_sum * Scale = SumSeq(BlockKeys("Top"))
        /\ kpis.bottom_sum * Scale = SumSeq(BlockKeys("Bottom"))
        /\ kpis.total_sum = SectionRows(df_report, "TOTAL")[1].metric_value
        /\ kpis.net = kpis.top_sum + kpis.bottom_sum
    /\ EmptyRangeBuilt => (df_report.rows = <<>> /\ kpis = None)

\* The integer k is h/Scale with its fraction dropped.
TruncationOf(k, h) ==
    IF h >= 0 THEN k * Scale <= h /\ h < (k + 1) * Scale
    ELSE (k - 1) * Scale < h /\ h <= k * Scale

\* C19 amended: topSum and bottomSum are the sums of the metric over the
\* Top and the Bottom rows with the fraction dropped (truncated towards
\* zero), totalSum is the TOTAL row's metric_value, net = topSum +
\* bottomSum; an empty filtered set gives an empty report and no KPIs.
C19_KpisAreTruncatedBlockSums ==
    /\ ReportBuilt =>
        /\ kpis # None
        /\ TruncationOf(kpis.top_sum, SumSeq(BlockKeys("Top")))
        /\ TruncationOf(kpis.bottom_sum, SumSeq(BlockKeys("Bottom")))
        /\ kpis.total_sum = SectionRows(df_report, "TOTAL")[1].metric_value
        /\ kpis.net = kpis.top_sum + kpis.bottom_sum
    /\ EmptyRangeBuilt => (df_report.rows = <<>> /\ kpis = None)

\* C19 witness: a report over three rows with N = 1 whose Bottom row holds
\* -1.5 and whose Top row holds 0.5, so both sums have a fraction to drop.
C19_Witness ==
    /\ ReportBuilt
    /\ Len(df_range.rows) = 3
    /\ n_var = 1
    /\ SumSeq(BlockKeys("Bottom")) = -3
    /\ SumSeq(BlockKeys("Top")) = 1
    /\ kpis.bottom_sum = -1
    /\ kpis.top_sum = 0

(***************************************************************************)
(* Order of the report                                                     *)
(***************************************************************************)
\* C20: a non-empty report holds its Top rows first, ranks 1..k ascending
\* with rank 1 the greatest metric value, then its Bottom rows, ranks k..1
\* descending so that Bottom rank 1, the smallest metric value, is next to
\* TOTAL, then exactly one TOTAL row, last; the table of 100, -50 and 30
\* with n = 1 gives Top = [100, rank 1], Bottom = [-50, rank 1], TOTAL = 80.
C20_ReportOrder ==
    ReportBuilt =>
        LET rows == df_report.rows
            k == Len(SectionRows(df_report, "Top"))
            m == Len(SectionRows(df_report, "Bottom"))
        IN  /\ Len(rows) = k + m + 1
            /\ \A i \in 1..k : rows[i].section = "Top" /\ rows[i].rank = i
            /\ \A j \in 1..m : /\ rows[k + j].section = "Bottom"
                               /\ rows[k + j].rank = m - j + 1
            /\ rows[k + m + 1].section = "TOTAL"
            /\ \A i \in 1..(k - 1) : KeyOf(rows[i]) >= KeyOf(rows[i + 1])
            /\ \A j \in 1..(m - 1) : KeyOf(rows[k + j]) >= KeyOf(rows[k + j + 1])
            /\ \A x \in 1..Len(RangeMetric) :
                    /\ k > 0 => KeyOf(rows[1]) >= RangeMetric[x]
                    /\ m > 0 => KeyOf(rows[k + m]) <= RangeMetric[x]
            /\ (rep_eod = ScenarioTable /\ Len(df_range.rows) = 3 /\ ClampedN = 1) =>
                    /\ k = 1 /\ m = 1
                    /\ rows[1].metric_value = 100 /\ rows[1].rank = 1
                    /\ rows[2].metric_value = -50 /\ rows[2].rank = 1
                    /\ rows[3].metric_value = 80

\* C20 witness: a report with two Top and two Bottom rows over three rows
\* of different metric values, the Bottom block shown worst row last.
C20_Witness ==
    /\ ReportBuilt
    /\ n_var = 2
    /\ Len(df_range.rows) = 3
    /\ \A i, j \in 1..3 : i # j => RangeMetric[i] # RangeMetric[j]
    /\ df_report.rows[3].section = "Bottom" /\ df_report.rows[3].rank = 2
    /\ df_report.rows[4].section = "Bottom" /\ df_report.rows[4].rank = 1
    /\ KeyOf(df_report.rows[4]) < KeyOf(df_report.rows[3])

(***************************************************************************)
(* Date range and portfolio filter of the report                           *)
(***************************************************************************)
\* The day numbers the From and To controls hold.
DayOf(s) == IF s = "2024-01-01" THEN 1 ELSE 2

\* C21: applying the report with To before From swaps the two dates and
\* writes them back into the controls; the set handed to the builder is
\* exactly the End-of-Day rows, in their order, whose day lies in
\* [from, to] inclusive and, when the portfolio filter is not ALL, whose
\* portfolio equals the filter.
C21_SwapAndInclusiveRange ==
    [][(rep_pc = "call" /\ rep_pc' = "done" /\ ~Empty(rep_eod)
        /\ parse_iso_date(rep_from_var).ok /\ parse_iso_date(rep_to_var).ok)
       => LET lo == Min(DayOf(rep_from_var), DayOf(rep_to_var))
              hi == Max(DayOf(rep_from_var), DayOf(rep_to_var))
          IN  /\ DayOf(rep_from_var') = lo
              /\ DayOf(rep_to_var') = hi
              /\ df_range' # None
              /\ df_range'.rows =
                    SelectSeq(rep_eod.rows,
                              LAMBDA r : /\ lo <= r.day /\ r.day <= hi
                                         /\ portfolio_var # "ALL" => r.portfolio = portfolio_var)]_vars

\* C21 witness: the report was applied with To before From (To now holds
\* the later day) and the portfolio filter set; the range keeps a row of
\* each day and drops a row of the other portfolio.
C21_Witness ==
    /\ rep_pc = "done"
    /\ rep_from_var = "2024-01-01"
    /\ rep_to_var = "2024-01-02"
    /\ portfolio_var = "MM_CORE"
    /\ Len(rep_eod.rows) = 3
    /\ Len(df_range.rows) = 2
    /\ df_range.rows[1].day # df_range.rows[2].day

OrderedRange(p) ==
    /\ p.from # ""
    /\ p.to # ""
    /\ (parse_iso_date(p.from).ok /\ parse_iso_date(p.to).ok) =>
            parse_iso_date(p.from).date <= parse_iso_date(p.to).date

Outstanding ==
    Cardinality({w \in 1..Len(workers) : workers[w].pc # "done"}) + Len(result_queue)

\* C24: at most one load worker is outstanding at any time: between the start
\* of a worker and the application of its result no user action starts a
\* second one.
C24_AtMostOneOutstanding ==
    Outstanding <= 1
(***************************************************************************)
(* Progress of the poll handler                                            *)
(***************************************************************************)
\* The payloads the workers have put on the queue so far, and those of
\* them the poll handler has taken and applied.
Placed == Cardinality({w \in 1..Len(workers) : workers[w].puts > 0})
Applied == Placed - Len(result_queue)

C26_ViewOrderedByRecordedSort ==
    (sort_col # NoneStr /\ view_df_view # None) =>
        Ordered(view_df_view.rows, sort_col, sort_asc)
(***************************************************************************)
(* Columns rendered by the report table                                    *)
(***************************************************************************)
\* C27: the column chooser of the report table never having been used, after
\* any sequence of Apply actions every column of the current non-empty
\* report table is rendered.
C27_AllReportColumnsRendered ==
    (rep_pc = "done" /\ data_df # None /\ ~Empty(data_df)) =>
        Range(data_df.columns) \subseteq Range(data_rendered)
(***************************************************************************)
(* Frame of show_sheet                                                     *)
(***************************************************************************)
\* C28: selecting another sheet while a table is loaded changes only which
\* sheet is raised and selected: the recorded sort column and direction, the
\* flag filter, the displayed rows and the report's selected fields stay as
\* they were.
C28_ShowSheetKeepsViewState ==
    [][(selected' # selected /\ current_df # None) =>
          UNCHANGED <<sort_col, sort_asc, bool_var, view_df_view, fields_sel>>]_vars
(***************************************************************************)
(* Rows info of the header                                                 *)
(***************************************************************************)
\* C29: whenever no load is outstanding, the rows info shows the no-data
\* state exactly when the application has no current table; after a failed
\* load over a loaded table it still describes that table.
C29_RowsInfoMatchesCurrentTable ==
    Outstanding = 0 =>
        /\ (rows_var = NoData) <=> (current_df = None)
        /\ current_df # None => rows_var = set_rows_info(current_df)
(***************************************************************************)
(* Top and Bottom blocks of a large enough set                             *)
(***************************************************************************)
\* C30: whenever twice the effective N is at most the number of rows of the
\* filtered End-of-Day set, no row appears in both the Top and the Bottom
\* block, rows of equal metric value included.
C30_BlocksDisjointWhenEnoughRows ==
    (ReportBuilt /\ 2 * ClampN(n_var) <= Len(df_range.rows)) => BlocksDisjoint

============================================================================
